---------------------------- MODULE Spec2Model ----------------------------
(***************************************************************************)
(* Model of spsdk/fuses/fuses.py: the Fuses orchestrator (load_config,     *)
(* read_single, read_all, write_single, write_multiple) over a small fuse  *)
(* register map, and the blhost backend operator with its session          *)
(* decorator.  Each public method is one action; the nested calls a        *)
(* method makes (lock-fuse reads, policy re-reads, backend calls) are      *)
(* computed inside the action by the operators below, which thread the     *)
(* orchestrator state through the call tree and return an outcome record.  *)
(***************************************************************************)
EXTENDS Integers, Sequences, FiniteSets, TLC

(***************************************************************************)
(* Bounds of the model.                                                    *)
(***************************************************************************)
\* nesting depth of read_single calls after which Python's recursion limit
\* is taken to be hit (RecursionError)
MaxDepth == 6

\* the device reads of one operation are numbered from 1; the read whose
\* number is failAt is rejected, failAt ranges over 0 .. MaxFailAt (0: none)
MaxFailAt == 6

(***************************************************************************)
(* The register map.  "T" is the target register, "L" a lock fuse, "G" a   *)
(* group register made of T and L.  "NOPE" is a name of no register.       *)
(***************************************************************************)
Regs == {"T", "L", "G"}
Names == Regs \cup {"NOPE"}
NoReg == "None"
NoIndex == 0 - 1

NEVER == "never"
ALWAYS == "always"
IMPLICIT == "implicit"
IndividualWriteLock == {NEVER, ALWAYS, IMPLICIT}

READ_LOCK == "READ_LOCK"
WRITE_LOCK == "WRITE_LOCK"
FuseLock == {READ_LOCK, WRITE_LOCK}

\* bit of the lock fuse's value that write-locks / read-locks a register
WRITE_LOCK_MASK == 1
READ_LOCK_MASK == 2

\* exceptions, by the name of the class the code raises
NoExc == "none"
SPSDKError == "SPSDKError"
SPSDKFuseOperationFailure == "SPSDKFuseOperationFailure"
SPSDKFuseConfigurationError == "SPSDKFuseConfigurationError"
SPSDKRegsErrorRegisterNotFound == "SPSDKRegsErrorRegisterNotFound"
RecursionError == "RecursionError"
SPSDKAttributeError == "SPSDKAttributeError"
SPSDKValueError == "SPSDKValueError"
\* raised by the transport under mboot when the connection breaks
McuBootError == "McuBootError"

(***************************************************************************)
(* Structural definition of the registers: fixed for a session, chosen in  *)
(* Init.  regs are the registers of the collection, values[r] the values   *)
(* register r can hold (a lock fuse has the two lock bits).                *)
(***************************************************************************)
DataValues == {0, 1}
LockValues == {0, 1, 2, 3}

OtpIndices == {3, 5}

\* a collection of the single register T: without lock fuse, or its own lock fuse
SingleDb(pol, lfT) ==
    [ regs |-> {"T"},
      individual_write_lock |-> [r \in Regs |-> IF r = "T" THEN pol ELSE NEVER],
      lock_fuse |-> [r \in Regs |-> IF r = "T" THEN lfT ELSE NoReg],
      otp_index |-> [r \in Regs |-> IF r = "T" THEN 3 ELSE NoIndex],
      is_readable |-> [r \in Regs |-> TRUE],
      is_writable |-> [r \in Regs |-> TRUE],
      sub_regs |-> [r \in Regs |-> <<>>],
      reverse_subregs_order |-> [r \in Regs |-> FALSE],
      order |-> <<"T">>,
      values |-> [r \in Regs |-> IF r = "T" /\ lfT = "T" THEN LockValues
                                 ELSE IF r = "T" THEN DataValues ELSE {0}] ]

\* a collection of T, its lock fuse L and the group register G of both
LockedDb(pol, lfL, otpT, rd, wr) ==
    [ regs |-> Regs,
      individual_write_lock |-> [r \in Regs |-> IF r = "T" THEN pol ELSE NEVER],
      lock_fuse |-> [r \in Regs |-> CASE r = "T" -> "L" [] r = "L" -> lfL [] OTHER -> NoReg],
      otp_index |-> [r \in Regs |-> CASE r = "T" -> otpT [] r = "L" -> 5 [] OTHER -> NoIndex],
      is_readable |-> [r \in Regs |-> IF r = "T" THEN rd ELSE TRUE],
      is_writable |-> [r \in Regs |-> IF r = "T" THEN wr ELSE TRUE],
      sub_regs |-> [r \in Regs |-> IF r = "G" THEN <<"T", "L">> ELSE <<>>],
      reverse_subregs_order |-> [r \in Regs |-> FALSE],
      order |-> <<"T", "L", "G">>,
      values |-> [r \in Regs |-> CASE r = "T" -> DataValues [] r = "L" -> LockValues
                                 [] OTHER -> {0}] ]

BaseDb ==
    { SingleDb(pol, lfT) : pol \in IndividualWriteLock, lfT \in {NoReg, "T"} }
    \cup { LockedDb(pol, NoReg, 3, TRUE, TRUE) : pol \in IndividualWriteLock }
    \cup { LockedDb(NEVER, "L", 3, TRUE, TRUE) }

\* T is not readable, not writable, or has no otp_index
DefectDb ==
    { LockedDb(ALWAYS, NoReg, 3, FALSE, TRUE),
      LockedDb(ALWAYS, NoReg, 3, TRUE, FALSE),
      LockedDb(ALWAYS, NoReg, NoIndex, TRUE, TRUE) }

\* L, the second member of the group register G, is not writable
MemberDefectDb ==
    { [LockedDb(NEVER, NoReg, 3, TRUE, TRUE) EXCEPT !.is_writable = [r \in Regs |-> r # "L"]] }

\* the group register G has reverse_subregs_order set
ReversedDb ==
    { [LockedDb(NEVER, NoReg, 3, TRUE, TRUE)
          EXCEPT !.reverse_subregs_order = [r \in Regs |-> r = "G"]] }

\* the values the fuse at an otp index can hold in the chip
DeviceValues(d, i) ==
    IF \E r \in d.regs : d.otp_index[r] = i
    THEN d.values[CHOOSE r \in d.regs : d.otp_index[r] = i]
    ELSE {0}

VARIABLES
    db,             \* the structural definition (immutable)
    value,          \* FuseRegister value held in memory, per leaf register
    active_locks,   \* FuseRegister active locks, per register
    fuse_context,   \* Fuses.fuse_context: the last-touched list
    is_opened,      \* McuBoot session of the blhost operator
    device,         \* fuse values in the chip, by otp index
    fuse_script     \* FuseScript: operator, no_verify and fuses_db (immutable)

vars == <<db, value, active_locks, fuse_context, is_opened, device, fuse_script>>

(***************************************************************************)
(* Register model (spsdk.fuses.fuse_registers, not part of the sources).   *)
(***************************************************************************)
find_reg(name) == name

is_known(d, name) == name \in d.regs

get_lock_fuse(d, reg) == d.lock_fuse[reg]

has_group_registers(d, reg) == Len(d.sub_regs[reg]) > 0

get_reset_value(reg) == 0

HasBit(v, mask) == (v \div mask) % 2 = 1

LocksOf(v) ==
    (IF HasBit(v, WRITE_LOCK_MASK) THEN {WRITE_LOCK} ELSE {})
    \cup (IF HasBit(v, READ_LOCK_MASK) THEN {READ_LOCK} ELSE {})

\* recompute, for every register with a lock fuse, the active locks from
\* the lock fuse's current value
update_locks(d, val, locks) ==
    [r \in Regs |->
        IF d.lock_fuse[r] = NoReg \/ has_group_registers(d, d.lock_fuse[r])
        THEN locks[r]
        ELSE LocksOf(val[d.lock_fuse[r]])]

Reverse(seq) == [i \in 1 .. Len(seq) |-> seq[Len(seq) + 1 - i]]

\* the members of a group register in the order its flag asks for
ordered_sub_regs(d, reg) ==
    IF d.reverse_subregs_order[reg] THEN Reverse(d.sub_regs[reg]) ELSE d.sub_regs[reg]

\* the value of a group register: its members' values, in declared or
\* reversed order
get_value(d, val, reg) ==
    IF has_group_registers(d, reg)
    THEN [i \in 1 .. Len(d.sub_regs[reg]) |-> val[ordered_sub_regs(d, reg)[i]]]
    ELSE val[reg]


(***************************************************************************)
(* Outcome of a call: the orchestrator state it leaves, the exception it   *)
(* raised (NoExc when it returned) and the value it returned.  s.log is    *)
(* the sequence of session and device events of the operation under way.   *)
(***************************************************************************)
Raise(s, e) == [s |-> s, exc |-> e, ret |-> 0]

Return(s, v) == [s |-> s, exc |-> NoExc, ret |-> v]

\* an exception raised by a call propagates; otherwise the caller goes on
Bind(r, Continue(_)) == IF r.exc # NoExc THEN r ELSE Continue(r)

\* an event of the log; locks are the in-memory active locks and opened the
\* state of the session when it happens
Event(e, i, v, l, ok) ==
    [ev |-> e, index |-> i, value |-> v, lock |-> l, ok |-> ok, locks |-> <<>>,
     opened |-> FALSE]

Logged(s, e) ==
    [s EXCEPT !.log = Append(@, [e EXCEPT !.locks = s.active_locks,
                                          !.opened = s.is_opened])]

(***************************************************************************)
(* BlhostFuseOperator.  The decorator opens the session unless it is open, *)
(* runs the device command and closes the session on every exit path.      *)
(***************************************************************************)
session_enter(s) ==
    IF ~s.is_opened
    THEN [Logged(s, Event("open", NoIndex, 0, FALSE, TRUE)) EXCEPT !.is_opened = TRUE]
    ELSE s

\* variant of session_exit: the session is left as it is
session_exit_keeps_open(s) == s

session_exit(s) ==
    [Logged(s, Event("close", NoIndex, 0, FALSE, TRUE)) EXCEPT !.is_opened = FALSE]

\* variant of Finally: the session is closed only when the command returned
Finally_on_return(r) == IF r.exc = NoExc THEN [r EXCEPT !.s = session_exit(r.s)] ELSE r

\* lines 105-108: the finally clause runs on return and on raise
Finally(r) == [r EXCEPT !.s = session_exit(r.s)]

mboot_operation_decorator(s, func(_)) == Finally(func(session_enter(s)))

\* the device reads made so far in the operation
reads_so_far(s) == Len(SelectSeq(s.log, LAMBDA e : e.ev = "read"))

\* mboot.efuse_read_once: None when the device rejects the read
efuse_read_once(s, index) ==
    index \notin s.failR /\ reads_so_far(s) + 1 # s.failAt

\* mboot.efuse_program_once: false when the device rejects the write
efuse_program_once(s, index) == ~s.failW

\* lines 129-132
read_fuse_body(s, index) ==
    IF s.raises
    THEN Raise(Logged(s, Event("read", index, 0, FALSE, FALSE)), McuBootError)
    ELSE IF efuse_read_once(s, index)
    THEN Return(Logged(s, Event("read", index, s.device[index], FALSE, TRUE)), s.device[index])
    ELSE Raise(Logged(s, Event("read", index, 0, FALSE, FALSE)), SPSDKFuseOperationFailure)

read_fuse(s, index) ==
    mboot_operation_decorator(s, LAMBDA s1 : read_fuse_body(s1, index))

\* lines 142-146
write_fuse_body(s, index, v, lock) ==
    IF s.raises
    THEN Raise(Logged(s, Event("write", index, v, lock, FALSE)), McuBootError)
    ELSE IF efuse_program_once(s, index)
    THEN Return([Logged(s, Event("write", index, v, lock, TRUE)) EXCEPT !.device[index] = v], 0)
    ELSE Raise(Logged(s, Event("write", index, v, lock, FALSE)), SPSDKFuseOperationFailure)

write_fuse(s, index, v, lock) ==
    mboot_operation_decorator(s, LAMBDA s1 : write_fuse_body(s1, index, v, lock))

(***************************************************************************)
(* Fuses.read_single.  depth counts the nested read_single frames left     *)
(* before the interpreter's recursion limit.                               *)
(***************************************************************************)
\* line 357: the lock fuse is read first when there is one and locks are checked
reads_lock_fuse_first(lock_fuse, check_locks) == lock_fuse # NoReg /\ check_locks

\* variant of inner_check_locks: the inner read checks locks also for a fuse
\* that locks itself
inner_check_locks_always(lock_fuse, reg) == TRUE

\* lines 360, 406: if the fuse locks itself, the inner read does not check locks
inner_check_locks(lock_fuse, reg) == lock_fuse # reg

\* lines 374-377: cache the value read, recompute the locks, set the context
cache_read(d, s, reg, v) ==
    [s EXCEPT !.value = [@ EXCEPT ![reg] = v],
              !.active_locks = update_locks(d, [s.value EXCEPT ![reg] = v], @),
              !.fuse_context = <<reg>>]

RECURSIVE read_single(_, _, _, _, _)
RECURSIVE read_sub_regs(_, _, _, _, _)

\* variant of read_group_end: the last-touched list is left as the member
\* reads set it
read_group_end_keeps_context(d, s, reg) ==
    Return(s, get_value(d, s.value, reg))

\* lines 369-370
read_group_end(d, s, reg) ==
    Return([s EXCEPT !.fuse_context = <<reg>>], get_value(d, s.value, reg))

\* lines 366-377: the read proper, after the lock check
read_body(d, s, reg, depth) ==
    IF has_group_registers(d, reg)
    THEN Bind(read_sub_regs(d, s, d.sub_regs[reg], 1, depth),
              LAMBDA r : read_group_end(d, r.s, reg))
    ELSE IF d.otp_index[reg] = NoIndex
    THEN Raise(s, SPSDKFuseConfigurationError)
    ELSE Bind(read_fuse(s, d.otp_index[reg]),
              LAMBDA r : Return(cache_read(d, r.s, reg, r.ret), r.ret))

\* variant of read_unless_locked: READ_LOCK is not looked at
read_although_locked(d, s, reg, depth) == read_body(d, s, reg, depth)

\* lines 361-364, then the read proper
read_unless_locked(d, s, reg, depth) ==
    IF READ_LOCK \in s.active_locks[reg]
    THEN Raise(s, SPSDKFuseOperationFailure)
    ELSE read_body(d, s, reg, depth)

\* lines 352-377, for a register of the collection
read_single_reg(d, s, reg, check_locks, depth) ==
    IF ~d.is_readable[reg] THEN Raise(s, SPSDKFuseOperationFailure)
    ELSE IF reads_lock_fuse_first(get_lock_fuse(d, reg), check_locks)
    THEN Bind(read_single(d, s, get_lock_fuse(d, reg),
                          inner_check_locks(get_lock_fuse(d, reg), reg), depth - 1),
              LAMBDA r : read_unless_locked(d, r.s, reg, depth))
    ELSE read_body(d, s, reg, depth)

read_single(d, s, name, check_locks, depth) ==
    IF depth = 0 THEN Raise(s, RecursionError)
    ELSE IF ~is_known(d, name) THEN Raise(s, SPSDKRegsErrorRegisterNotFound)
    ELSE read_single_reg(d, s, find_reg(name), check_locks, depth)

\* lines 367-368: read every member, from the i-th on, in declared order
read_sub_regs(d, s, subs, i, depth) ==
    IF i > Len(subs) THEN Return(s, 0)
    ELSE Bind(read_single(d, s, subs[i], TRUE, depth - 1),
              LAMBDA r : read_sub_regs(d, r.s, subs, i + 1, depth))

(***************************************************************************)
(* Fuses.write_single and its inner write_single_reg.                      *)
(***************************************************************************)
\* variants of policy_precheck: the check left out for ALWAYS; made for
\* every policy
policy_precheck_implicit_only(policy) == policy = IMPLICIT

policy_precheck_all(policy) == TRUE

\* lines 411-414: the policies whose registers are re-read and compared with
\* the reset value before the write
policy_precheck(policy) == policy \in {ALWAYS, IMPLICIT}

\* variants of effective_lock: the caller's flag kept for IMPLICIT; kept
\* for ALWAYS
effective_lock_no_implicit(policy, lock) ==
    IF ~lock /\ policy = ALWAYS THEN TRUE ELSE lock

effective_lock_no_always(policy, lock) ==
    IF lock /\ policy = IMPLICIT THEN FALSE ELSE lock

\* lines 421-430: the lock flag handed to the backend
effective_lock(policy, lock) ==
    IF lock /\ policy = IMPLICIT THEN FALSE
    ELSE IF ~lock /\ policy = ALWAYS THEN TRUE
    ELSE lock

\* variant of locks_after_write: only an explicit lock is recorded
locks_after_write_explicit(policy, lock) == lock

\* line 433: whether the local register is locked after the write
locks_after_write(policy, lock) == lock \/ policy = IMPLICIT

\* line 431: the value handed to the backend is the register's value at
\* the time of the backend call
written_value(s, reg) == s.value[reg]

\* variant of write_lock_checked: the lock fuse is never consulted
write_lock_unchecked(lock_reg) == FALSE

\* line 403: the write-lock check is made for a register with a lock fuse
write_lock_checked(lock_reg) == lock_reg # NoReg

\* lines 433-434
lock_local(d, s, reg, lock) ==
    IF locks_after_write(d.individual_write_lock[reg], lock)
    THEN Return([s EXCEPT !.active_locks[reg] = @ \cup {WRITE_LOCK}], 0)
    ELSE Return(s, 0)

\* variant of write_tail: the local register is locked before the backend
\* write is made
write_tail_locks_first(d, s, reg, lock) ==
    Bind(lock_local(d, s, reg, effective_lock(d.individual_write_lock[reg], lock)),
         LAMBDA l : write_fuse(l.s, d.otp_index[reg], written_value(l.s, reg),
                               effective_lock(d.individual_write_lock[reg], lock)))

\* lines 421-434
write_tail(d, s, reg, lock) ==
    Bind(write_fuse(s, d.otp_index[reg], written_value(s, reg),
                    effective_lock(d.individual_write_lock[reg], lock)),
         LAMBDA w : lock_local(d, w.s, reg, effective_lock(d.individual_write_lock[reg], lock)))

\* lines 416-419, then the write
write_if_reset(d, r, reg, lock) ==
    IF r.ret # get_reset_value(reg)
    THEN Raise(r.s, SPSDKFuseOperationFailure)
    ELSE write_tail(d, r.s, reg, lock)

\* variant of write_policy: the policy re-read does not check locks
write_policy_reread_unchecked(d, s, reg, lock) ==
    IF policy_precheck(d.individual_write_lock[reg])
    THEN Bind(read_single(d, s, reg, FALSE, MaxDepth),
              LAMBDA r : write_if_reset(d, r, reg, lock))
    ELSE write_tail(d, s, reg, lock)

\* lines 411-434
write_policy(d, s, reg, lock) ==
    IF policy_precheck(d.individual_write_lock[reg])
    THEN Bind(read_single(d, s, reg, TRUE, MaxDepth),
              LAMBDA r : write_if_reset(d, r, reg, lock))
    ELSE write_tail(d, s, reg, lock)

\* lines 407-410, then the policy check and the write
write_unless_locked(d, s, reg, lock) ==
    IF WRITE_LOCK \in s.active_locks[reg]
    THEN Raise(s, SPSDKFuseOperationFailure)
    ELSE write_policy(d, s, reg, lock)

\* variant of write_single_reg: the lock fuse is read before the otp_index
\* and access checks
write_single_reg_checks_after_read(d, s, reg, lock) ==
    IF write_lock_checked(get_lock_fuse(d, reg))
    THEN Bind(read_single(d, s, get_lock_fuse(d, reg),
                          inner_check_locks(get_lock_fuse(d, reg), reg), MaxDepth),
              LAMBDA r : IF d.otp_index[reg] = NoIndex THEN Raise(r.s, SPSDKError)
                         ELSE IF ~d.is_writable[reg]
                         THEN Raise(r.s, SPSDKFuseOperationFailure)
                         ELSE write_unless_locked(d, r.s, reg, lock))
    ELSE IF d.otp_index[reg] = NoIndex THEN Raise(s, SPSDKError)
    ELSE IF ~d.is_writable[reg] THEN Raise(s, SPSDKFuseOperationFailure)
    ELSE write_policy(d, s, reg, lock)

\* lines 395-434
write_single_reg(d, s, reg, lock) ==
    IF d.otp_index[reg] = NoIndex THEN Raise(s, SPSDKError)
    ELSE IF ~d.is_writable[reg] THEN Raise(s, SPSDKFuseOperationFailure)
    ELSE IF write_lock_checked(get_lock_fuse(d, reg))
    THEN Bind(read_single(d, s, get_lock_fuse(d, reg),
                          inner_check_locks(get_lock_fuse(d, reg), reg), MaxDepth),
              LAMBDA r : write_unless_locked(d, r.s, reg, lock))
    ELSE write_policy(d, s, reg, lock)

RECURSIVE write_sub_regs(_, _, _, _, _)
\* variant of write_sub_regs: the members are written without the caller's
\* lock argument
write_sub_regs_unlocked(d, s, subs, i, lock) ==
    IF i > Len(subs) THEN Return(s, 0)
    ELSE Bind(write_single_reg(d, s, subs[i], FALSE),
              LAMBDA r : write_sub_regs(d, r.s, subs, i + 1, lock))

\* lines 438-439: write every member, from the i-th on, in declared order
write_sub_regs(d, s, subs, i, lock) ==
    IF i > Len(subs) THEN Return(s, 0)
    ELSE Bind(write_single_reg(d, s, subs[i], lock),
              LAMBDA r : write_sub_regs(d, r.s, subs, i + 1, lock))

\* variant of write_single: a name of no register is ignored
write_single_unknown_ignored(d, s, name, lock) ==
    IF ~is_known(d, name) THEN Return(s, 0)
    ELSE IF has_group_registers(d, find_reg(name))
    THEN write_sub_regs(d, s, d.sub_regs[find_reg(name)], 1, lock)
    ELSE write_single_reg(d, s, find_reg(name), lock)

write_single(d, s, name, lock) ==
    IF ~is_known(d, name) THEN Raise(s, SPSDKRegsErrorRegisterNotFound)
    ELSE IF has_group_registers(d, find_reg(name))
    THEN write_sub_regs(d, s, d.sub_regs[find_reg(name)], 1, lock)
    ELSE write_single_reg(d, s, find_reg(name), lock)

(***************************************************************************)
(* Fuses.load_config, Fuses.read_all, Fuses.write_multiple.                *)
(***************************************************************************)
\* variant of load_config: the values are loaded, the list is left alone
load_config_keeps_context(s, names, cfg) ==
    Return([s EXCEPT !.value = [r \in Regs |-> IF \E i \in 1 .. Len(names) : names[i] = r
                                               THEN cfg[r] ELSE @[r]]], 0)

\* lines 315-320, for a configuration naming the registers of names, in
\* that order, with the values of cfg
load_config(s, names, cfg) ==
    Return([s EXCEPT !.value = [r \in Regs |-> IF \E i \in 1 .. Len(names) : names[i] = r
                                               THEN cfg[r] ELSE @[r]],
                     !.fuse_context = names], 0)

RECURSIVE read_all_from(_, _, _, _)
\* variant of read_all_step: a failed read is not caught
read_all_step_uncaught(d, r, i, ctx) ==
    IF r.exc = NoExc THEN read_all_from(d, r.s, i + 1, Append(ctx, d.order[i]))
    ELSE r

\* lines 338-342: the register is appended to ctx when its read returned,
\* skipped when it raised SPSDKFuseOperationFailure
read_all_step(d, r, i, ctx) ==
    IF r.exc = NoExc THEN read_all_from(d, r.s, i + 1, Append(ctx, d.order[i]))
    ELSE IF r.exc = SPSDKFuseOperationFailure THEN read_all_from(d, r.s, i + 1, ctx)
    ELSE r

\* lines 337-343: read the registers of the collection from the i-th on
read_all_from(d, s, i, ctx) ==
    IF i > Len(d.order) THEN Return([s EXCEPT !.fuse_context = ctx], 0)
    ELSE read_all_step(d, read_single(d, s, d.order[i], TRUE, MaxDepth), i, ctx)

read_all(d, s) == read_all_from(d, s, 1, <<>>)

RECURSIVE write_multiple_from(_, _, _, _)
\* variant of write_multiple_from: a name that fails is passed over
write_multiple_from_best_effort(d, s, names, i) ==
    IF i > Len(names) THEN Return(s, 0)
    ELSE IF ~is_known(d, names[i]) THEN write_multiple_from(d, s, names, i + 1)
    ELSE write_multiple_from(d, write_single(d, s, find_reg(names[i]), FALSE).s, names,
                             i + 1)

\* lines 384-386
write_multiple_from(d, s, names, i) ==
    IF i > Len(names) THEN Return(s, 0)
    ELSE IF ~is_known(d, names[i]) THEN Raise(s, SPSDKRegsErrorRegisterNotFound)
    ELSE Bind(write_single(d, s, find_reg(names[i]), FALSE),
              LAMBDA r : write_multiple_from(d, r.s, names, i + 1))

write_multiple(d, s, names) == write_multiple_from(d, s, names, 1)

(***************************************************************************)
(* Script rendering: get_fuse_write_cmd and get_fuse_script of the two     *)
(* operators, and Fuses.create_fuse_script.  A script is the sequence of   *)
(* its lines.                                                              *)
(***************************************************************************)
BLHOST == "blhost"
NXPELE == "nxpele"
Tools == {BLHOST, NXPELE}

Family == "mimxrt798s"
Revision == "latest"
spsdk_version == "2.2.0"

\* FuseRegisters.get_config: register -> value, of every leaf register or,
\* with diff, of those whose value differs from the reset value
registers_get_config(d, val, diff) ==
    [r \in {reg \in d.regs : /\ ~has_group_registers(d, reg)
                              /\ (diff => val[reg] # get_reset_value(reg))} |-> val[r]]

\* variant of get_config: the diff filter is always applied
get_config_diff_only(d, s, diff) ==
    Return(s, [family |-> Family, revision |-> Revision,
               registers |-> registers_get_config(d, s.value, TRUE)])

\* lines 508-511
get_config(d, s, diff) ==
    Return(s, [family |-> Family, revision |-> Revision,
               registers |-> registers_get_config(d, s.value, diff)])

HexDigit(n) ==
    <<"0", "1", "2", "3", "4", "5", "6", "7", "8", "9", "A", "B", "C", "D", "E", "F">>[n + 1]

RECURSIVE UpperHex(_)
\* format(value, "X")
UpperHex(v) ==
    IF v < 16 THEN HexDigit(v) ELSE UpperHex(v \div 16) \o HexDigit(v % 16)

\* get_bytes_value(raw=True).hex() of a 32-bit register holding a value
\* below 16
BytesHex(v) == "0000000" \o <<"0", "1", "2", "3", "4", "5", "6", "7", "8", "9", "a", "b",
                               "c", "d", "e", "f">>[v + 1]

\* variant of blhost_get_fuse_write_cmd: the verify flag is left out when
\* verify is not asked for
blhost_get_fuse_write_cmd_optional_flag(index, v, lock, verify) ==
    "efuse-program-once " \o ToString(index) \o " 0x" \o UpperHex(v)
    \o (IF verify THEN " --verify" ELSE "")
    \o (IF lock THEN " lock" ELSE "")

\* lines 172-176
blhost_get_fuse_write_cmd(index, v, lock, verify) ==
    "efuse-program-once " \o ToString(index) \o " 0x" \o UpperHex(v)
    \o (IF verify THEN " --verify" ELSE " --no-verify")
    \o (IF lock THEN " lock" ELSE "")

\* lines 246-251
nxpele_get_fuse_write_cmd(index, v, lock, verify) ==
    "write-fuse --index " \o ToString(index) \o " --data 0x" \o UpperHex(v)
    \o (IF lock THEN " --lock" ELSE "")

get_fuse_write_cmd(tool, index, v, lock, verify) ==
    IF tool = BLHOST THEN blhost_get_fuse_write_cmd(index, v, lock, verify)
    ELSE nxpele_get_fuse_write_cmd(index, v, lock, verify)

\* lines 153-157, 227-231
script_header(tool) ==
    << (IF tool = BLHOST THEN "# BLHOST" ELSE "# NXPELE") \o " fuses programming script",
       "# Generated by SPSDK " \o spsdk_version,
       "# Chip: " \o Family \o " rev:" \o Revision,
       "", "" >>

\* lines 161-164, 235-238: the lines of one fuse
fuse_lines(tool, d, s, fuse) ==
    << "# Fuse " \o fuse \o ", index " \o ToString(d.otp_index[fuse]) \o " and value: 0x"
         \o BytesHex(s.value[fuse]) \o ".",
       get_fuse_write_cmd(tool, d.otp_index[fuse], s.value[fuse], FALSE, FALSE),
       "" >>

RECURSIVE get_fuse_script_from(_, _, _, _, _, _)
\* variant of get_fuse_script_from: a fuse without otp_index is left out
get_fuse_script_skipping(tool, d, s, fuses, i, ret) ==
    IF i > Len(fuses) THEN Return(s, ret)
    ELSE IF d.otp_index[fuses[i]] = NoIndex
    THEN get_fuse_script_from(tool, d, s, fuses, i + 1, ret)
    ELSE get_fuse_script_from(tool, d, s, fuses, i + 1,
                              ret \o fuse_lines(tool, d, s, fuses[i]))

\* lines 158-165, 232-239: the loop over the fuses, from the i-th on
get_fuse_script_from(tool, d, s, fuses, i, ret) ==
    IF i > Len(fuses) THEN Return(s, ret)
    ELSE IF d.otp_index[fuses[i]] = NoIndex THEN Raise(s, SPSDKAttributeError)
    ELSE get_fuse_script_from(tool, d, s, fuses, i + 1,
                              ret \o fuse_lines(tool, d, s, fuses[i]))

get_fuse_script(tool, d, s, fuses) ==
    get_fuse_script_from(tool, d, s, fuses, 1, script_header(tool))

\* variant of script_sub_regs: the members always in declared order
script_sub_regs_declared(d, reg) == d.sub_regs[reg]

\* line 495: reg.sub_regs[:: -1 if reg.reverse_subregs_order else 1]
script_sub_regs(d, reg) ==
    IF d.reverse_subregs_order[reg] THEN Reverse(d.sub_regs[reg]) ELSE d.sub_regs[reg]

RECURSIVE script_regs(_, _, _)
\* lines 492-498: the registers of the list from the i-th on, a group
\* register replaced by its members
script_regs(d, ctx, i) ==
    IF i > Len(ctx) THEN <<>>
    ELSE (IF has_group_registers(d, ctx[i]) THEN script_sub_regs(d, ctx[i]) ELSE <<ctx[i]>>)
         \o script_regs(d, ctx, i + 1)

\* lines 487-501; tool is the operator type the family database names
create_fuse_script(d, s, tool) ==
    get_fuse_script(tool, d, s, script_regs(d, s.fuse_context, 1))

(***************************************************************************)
(* FuseScript.  The object has its own register collection (value holds    *)
(* its registers' values), the operator type and no_verify flag, and       *)
(* fuses_db, the ordered value specifications of the feature.  A value     *)
(* specification is an integer, a string, or a mapping of bitfield names   *)
(* to integers and strings.                                                *)
(***************************************************************************)
IntSpec(n) == [kind |-> "int", int |-> n, str |-> "", fields |-> <<>>]
StrSpec(str) == [kind |-> "str", int |-> 0, str |-> str, fields |-> <<>>]
DictSpec(fields) == [kind |-> "dict", int |-> 0, str |-> "", fields |-> fields]
Item(key, spec) == [key |-> key, value |-> spec]

\* the bitfields of a register: the bit each one covers
Bitfields == {"lo", "hi"}
bitfield_mask(name) == IF name = "lo" THEN WRITE_LOCK_MASK ELSE READ_LOCK_MASK

\* bitfield.set_value on a one-bit field, bitfield.get_hex_value
bitfield_set(v, name, bit) ==
    (IF HasBit(v, bitfield_mask(name)) THEN v - bitfield_mask(name) ELSE v)
    + bit * bitfield_mask(name)

bitfield_hex(v, name) == IF HasBit(v, bitfield_mask(name)) THEN "0x1" ELSE "0x0"

\* hex() of an integer below 16
LowerHex(v) ==
    "0x" \o <<"0", "1", "2", "3", "4", "5", "6", "7", "8", "9", "a", "b", "c", "d", "e",
               "f">>[v + 1]

\* hex(reg.get_value()): a group register's value is its members' 32-bit
\* values side by side
value_hex(d, s, reg) ==
    IF ~has_group_registers(d, reg) THEN LowerHex(s.value[reg])
    ELSE IF s.value[ordered_sub_regs(d, reg)[1]] = 0
    THEN LowerHex(s.value[ordered_sub_regs(d, reg)[2]])
    ELSE LowerHex(s.value[ordered_sub_regs(d, reg)[1]])
         \o SubSeq(BytesHex(s.value[ordered_sub_regs(d, reg)[2]]), 1, 8)

\* the attributes objects generate_script is given: attribute name -> value
AttrNames == {"a", "b"}
AttrObjects == UNION {[names -> {0, 1}] : names \in SUBSET AttrNames}
hasattr(attrs, name) == name \in DOMAIN attrs

\* the state of the variable fuse_script when there is no FuseScript object
NoScript ==
    [operator |-> BLHOST, no_verify |-> FALSE, name |-> "Fuse Script", fuses_db |-> <<>>]

\* lines 557-563
generate_file_header(fs) ==
    << "# " \o fs.operator \o " " \o fs.name \o " fuses programming script",
       "# Generated by SPSDK " \o spsdk_version,
       "# Family: " \o Family \o " Revision: " \o Revision >>

startswith(str, prefix) ==
    Len(str) >= Len(prefix) /\ SubSeq(str, 1, Len(prefix)) = prefix

\* variant of get_object_value: a missing attribute counts as 0
get_object_value_default(s, str, attrs) ==
    IF startswith(str, "__") /\ hasattr(attrs, SubSeq(str, 3, Len(str)))
    THEN Return(s, attrs[SubSeq(str, 3, Len(str))])
    ELSE Return(s, 0)

\* lines 565-572
get_object_value(s, str, attrs) ==
    IF startswith(str, "__") /\ hasattr(attrs, SubSeq(str, 3, Len(str)))
    THEN Return(s, attrs[SubSeq(str, 3, Len(str))])
    ELSE Raise(s, SPSDKValueError)

\* lines 606-607, 616-617: a value that is not truthy is not applied
is_truthy(v) == v # 0

\* lines 609-613
bitfield_info(s, reg, name) ==
    "# Bitfield: " \o name \o ", Description: " \o name \o " of " \o reg
    \o ", Value: " \o bitfield_hex(s.value[reg], name)

\* lines 602-613: one bitfield of a register; ret is the extra_info so far
set_bitfield_from_object(r, reg, name, extra) ==
    IF is_truthy(r.ret)
    THEN Return([r.s EXCEPT !.value[reg] = bitfield_set(@, name, r.ret)],
                Append(extra, bitfield_info([r.s EXCEPT !.value[reg] =
                                                 bitfield_set(@, name, r.ret)], reg, name)))
    ELSE Return(r.s, Append(extra, bitfield_info(r.s, reg, name)))

set_bitfield(s, reg, field, attrs, extra) ==
    IF field.value.kind = "int"
    THEN Return([s EXCEPT !.value[reg] = bitfield_set(@, field.key, field.value.int)],
                Append(extra, bitfield_info([s EXCEPT !.value[reg] =
                                   bitfield_set(@, field.key, field.value.int)],
                                            reg, field.key)))
    ELSE Bind(get_object_value(s, field.value.str, attrs),
              LAMBDA r : set_bitfield_from_object(r, reg, field.key, extra))

RECURSIVE set_bitfields(_, _, _, _, _, _)
\* lines 600-613: the bitfields of the mapping, from the i-th on
set_bitfields(s, reg, fields, attrs, i, extra) ==
    IF i > Len(fields) THEN Return(s, extra)
    ELSE Bind(set_bitfield(s, reg, fields[i], attrs, extra),
              LAMBDA r : set_bitfields(r.s, reg, fields, attrs, i + 1, r.ret))

\* lines 616-617
set_from_object(r, reg) ==
    IF is_truthy(r.ret) THEN Return([r.s EXCEPT !.value[reg] = r.ret], <<>>)
    ELSE Return(r.s, <<>>)

\* lines 596-617: apply the value specification of an item; ret is extra_info
apply_value(s, item, attrs) ==
    IF item.value.kind = "int"
    THEN Return([s EXCEPT !.value[item.key] = item.value.int], <<>>)
    ELSE IF item.value.kind = "dict"
    THEN set_bitfields(s, item.key, item.value.fields, attrs, 1, <<>>)
    ELSE Bind(get_object_value(s, item.value.str, attrs),
              LAMBDA r : set_from_object(r, item.key))

\* lines 619-623
value_lines(d, s, reg, extra) ==
    << "", "# Value: " \o value_hex(d, s, reg), "# Description: " \o reg \o " fuse" >>
    \o extra
    \o (IF extra # <<>>
        THEN <<"# WARNING! Partially set register, check all bitfields before writing">>
        ELSE <<>>)

\* lines 631-637, 642-648: the command and the info line of a register
command_line(fs, d, s, reg) ==
    get_fuse_write_cmd(fs.operator, d.otp_index[reg], s.value[reg], FALSE, ~fs.no_verify)

info_line(d, s, reg) ==
    "OTP ID: " \o ToString(d.otp_index[reg]) \o ", Value: " \o LowerHex(s.value[reg])

\* the text produced so far: the script and the info
Text(script, info) == [script |-> script, info |-> info]

RECURSIVE render_sub_regs(_, _, _, _, _, _)
\* lines 627-637: the members of a group register, from the i-th on
render_sub_regs(fs, d, s, subs, i, text) ==
    IF i > Len(subs) THEN Return(s, text)
    ELSE IF d.otp_index[subs[i]] = NoIndex THEN Raise(s, SPSDKError)
    ELSE render_sub_regs(fs, d, s, subs, i + 1,
            Text(text.script \o << "# OTP ID: " \o subs[i] \o ", Value: "
                                       \o LowerHex(s.value[subs[i]]),
                                   command_line(fs, d, s, subs[i]) >>,
                 Append(text.info, info_line(d, s, subs[i]))))

\* lines 619-648: the lines of one item, after its value was applied
render_item(fs, d, s, reg, extra, text) ==
    IF has_group_registers(d, reg)
    THEN render_sub_regs(fs, d, s, d.sub_regs[reg], 1,
            Text(text.script \o value_lines(d, s, reg, extra)
                     \o <<"# Grouped register name: " \o reg, "">>,
                 text.info \o <<"", " --== Grouped register name: " \o reg \o " ==-- ">>))
    ELSE IF d.otp_index[reg] = NoIndex THEN Raise(s, SPSDKError)
    ELSE Return(s, Text(text.script \o value_lines(d, s, reg, extra)
                            \o <<"# OTP ID: " \o reg, "", command_line(fs, d, s, reg)>>,
                        Append(text.info, info_line(d, s, reg))))

RECURSIVE generate_items(_, _, _, _, _, _)
\* lines 591-648: the items of fuses_db, from the i-th on
generate_item(fs, d, s, attrs, i, text) ==
    IF startswith(fs.fuses_db[i].key, "_")
    THEN generate_items(fs, d, s, attrs, i + 1, text)
    ELSE
    Bind(Bind(apply_value(s, fs.fuses_db[i], attrs),
              LAMBDA a : render_item(fs, d, a.s, fs.fuses_db[i].key, a.ret, text)),
         LAMBDA r : generate_items(fs, d, r.s, attrs, i + 1, r.ret))

generate_items(fs, d, s, attrs, i, text) ==
    IF i > Len(fs.fuses_db) THEN Return(s, text)
    ELSE generate_item(fs, d, s, attrs, i, text)

\* lines 650-652
select_text(r, info_only) ==
    Return(r.s, IF info_only THEN r.ret.info ELSE r.ret.script)

\* lines 574-652
generate_script(fs, d, s, attrs, info_only) ==
    Bind(generate_items(fs, d, s, attrs, 1, Text(generate_file_header(fs), <<>>)),
         LAMBDA r : select_text(r, info_only))

(***************************************************************************)
(* The state machine: one action per public method of Fuses.  The inputs   *)
(* of an operation include which device commands the chip rejects while    *)
(* it runs: the reads of the otp indices in failR, the failAt-th read,     *)
(* and every write when failW; with raises, the transport raises in the    *)
(* device command.                                                         *)
(***************************************************************************)
FailReads == {{}, {3}, {5}}

\* what the device does during a scan: it rejects the reads of some index,
\* or the failAt-th read
ScanFailures ==
    {<<failR, 0>> : failR \in FailReads} \cup {<<{}, failAt>> : failAt \in 1 .. MaxFailAt}

\* what the device and the transport do during a read or a write: the
\* device rejects commands, or the transport raises
CallFailures ==
    {<<failR, failW, FALSE>> : failR \in FailReads, failW \in BOOLEAN}
    \cup {<<{}, FALSE, TRUE>>}

\* the lists of names write_multiple is called with
NameLists == {<<"T", "L">>, <<"L", "T">>, <<"G", "T">>, <<"T", "NOPE">>, <<"NOPE", "T">>}

\* the configurations load_config is called with: the registers they name,
\* in the order of the configuration
ConfigOrders(d) ==
    {<<a>> : a \in d.regs \cap {"T", "L"}}
    \cup {<<b, a>> : a \in d.regs \cap {"T"}, b \in d.regs \cap {"L"}}

\* and the values they give
ConfigValues(d) ==
    {[r \in Regs |-> CASE r = "T" -> vT [] r = "L" -> vL [] OTHER -> 0] :
        vT \in d.values["T"], vL \in d.values["L"]}

\* the orchestrator state an operation starts from
Start(failR, failW) ==
    [value |-> value, active_locks |-> active_locks, fuse_context |-> fuse_context,
     is_opened |-> is_opened, device |-> device, log |-> <<>>,
     failR |-> failR, failW |-> failW, failAt |-> 0, raises |-> FALSE]

StartWith(failR, failW, failAt, raises) ==
    [Start(failR, failW) EXCEPT !.failAt = failAt, !.raises = raises]

\* the state an operation leaves, whether it returned or raised
Finish(r) ==
    /\ value' = r.s.value
    /\ active_locks' = r.s.active_locks
    /\ fuse_context' = r.s.fuse_context
    /\ is_opened' = r.s.is_opened
    /\ device' = r.s.device
    /\ UNCHANGED <<db, fuse_script>>

Init ==
    /\ db \in BaseDb \cup DefectDb \cup MemberDefectDb \cup ReversedDb
    /\ value = [r \in Regs |-> get_reset_value(r)]
    /\ active_locks = [r \in Regs |-> {}]
    /\ fuse_context = <<>>
    /\ is_opened \in BOOLEAN
    /\ device \in [OtpIndices -> LockValues]
    /\ \A i \in OtpIndices : device[i] \in DeviceValues(db, i)
    /\ fuse_script = NoScript

LoadConfig ==
    \E names \in ConfigOrders(db) :
        \E cfg \in ConfigValues(db) :
            Finish(load_config(Start({}, FALSE), names, cfg))

ReadSingle ==
    \E name \in Names, check_locks \in BOOLEAN, f \in CallFailures :
        /\ ~f[2]
        /\ Finish(read_single(db, StartWith(f[1], FALSE, 0, f[3]), name, check_locks,
                              MaxDepth))

ReadAll ==
    \E f \in ScanFailures :
        Finish(read_all(db, StartWith(f[1], FALSE, f[2], FALSE)))

WriteSingle ==
    \E name \in Names, lock \in BOOLEAN, f \in CallFailures :
        Finish(write_single(db, StartWith(f[1], f[2], 0, f[3]), name, lock))

WriteMultiple ==
    \E names \in NameLists, failR \in FailReads, failW \in BOOLEAN :
        Finish(write_multiple(db, Start(failR, failW), names))

Next == LoadConfig \/ ReadSingle \/ ReadAll \/ WriteSingle \/ WriteMultiple

Spec == Init /\ [][Next]_vars

(***************************************************************************)
(* The state machine of a FuseScript object: generate_script is its one    *)
(* operation.  It changes the values of the object's registers, also when  *)
(* it raises.                                                              *)
(***************************************************************************)
\* the families a FuseScript is made for
ScriptDb ==
    { LockedDb(NEVER, NoReg, 3, TRUE, TRUE), LockedDb(ALWAYS, NoReg, NoIndex, TRUE, TRUE) }
    \cup ReversedDb

\* the fuses_db tables of the features
ScriptItems ==
    { << Item("T", IntSpec(2)) >>,
      << Item("T", StrSpec("__a")) >>,
      << Item("L", IntSpec(1)), Item("T", StrSpec("__b")) >>,
      << Item("L", StrSpec("__a")), Item("T", StrSpec("__b")) >>,
      << Item("L", DictSpec(<< Item("lo", IntSpec(1)), Item("hi", StrSpec("__a")) >>)) >>,
      << Item("L", StrSpec("a")) >>,
      << Item("_note", StrSpec("__b")), Item("T", IntSpec(2)) >>,
      << Item("G", DictSpec(<<>>)) >>,
      << Item("L", IntSpec(3)), Item("G", DictSpec(<<>>)) >> }

FuseScripts ==
    [operator : Tools, no_verify : BOOLEAN, name : {"Fuse Script"}, fuses_db : ScriptItems]

ScriptInit ==
    /\ db \in ScriptDb
    /\ fuse_script \in FuseScripts
    /\ value = [r \in Regs |-> get_reset_value(r)]
    /\ active_locks = [r \in Regs |-> {}]
    /\ fuse_context = <<>>
    /\ is_opened = FALSE
    /\ device = [i \in OtpIndices |-> 0]

GenerateScript ==
    \E attrs \in AttrObjects, info_only \in BOOLEAN :
        /\ value' = generate_script(fuse_script, db, Start({}, FALSE), attrs, info_only).s.value
        /\ UNCHANGED <<db, active_locks, fuse_context, is_opened, device, fuse_script>>

ScriptNext == GenerateScript

ScriptSpec == ScriptInit /\ [][ScriptNext]_vars

(***************************************************************************)
(* Reading the outcome of an operation.                                    *)
(***************************************************************************)
WriteCalls(r) == SelectSeq(r.s.log, LAMBDA e : e.ev = "write")

ReadCalls(r) == SelectSeq(r.s.log, LAMBDA e : e.ev = "read")

ReadCallsOf(r, index) == SelectSeq(r.s.log, LAMBDA e : e.ev = "read" /\ e.index = index)

\* the leaf registers of the collection
LeafRegs == {reg \in db.regs : ~has_group_registers(db, reg)}

\* the device commands of the log, without the session events
DeviceCalls(r) == SelectSeq(r.s.log, LAMBDA e : e.ev \in {"read", "write"})

\* the lock fuse of reg was read from the device, successfully, before the
\* k-th event of the log
LockFuseReadBefore(r, reg, k) ==
    \E j \in 1 .. (k - 1) :
        /\ r.s.log[j].ev = "read"
        /\ r.s.log[j].ok
        /\ r.s.log[j].index = db.otp_index[db.lock_fuse[reg]]

\* a successful device read of the lock fuse of reg showed the bit mask set
LockFuseReadShows(r, reg, mask) ==
    \E j \in 1 .. Len(r.s.log) :
        /\ r.s.log[j].ev = "read"
        /\ r.s.log[j].ok
        /\ r.s.log[j].index = db.otp_index[db.lock_fuse[reg]]
        /\ HasBit(r.s.log[j].value, mask)

\* write_single finds no WRITE_LOCK on reg at its lock check: reg has no
\* lock fuse, or the read of its lock fuse returns and leaves none active
PassesWriteLockCheck(reg, failR) ==
    \/ db.lock_fuse[reg] = NoReg
    \/ LET r0 == read_single(db, Start(failR, FALSE), db.lock_fuse[reg],
                             db.lock_fuse[reg] # reg, MaxDepth)
       IN  r0.exc = NoExc /\ WRITE_LOCK \notin r0.s.active_locks[reg]

(***************************************************************************)
(* C1.  A successful write_single(name) hands to the backend write_fuse    *)
(* the value the register held in memory when write_single was called,     *)
(* for every policy and every lock-fuse relation.                          *)
(* The code does not: the policy re-read of an ALWAYS or IMPLICIT register *)
(* and the lock-fuse read of a self-locking register go through            *)
(* read_single, which caches the device value into the register before     *)
(* the write.                                                              *)
(***************************************************************************)
C1_WritesValueHeldBefore ==
    \A reg \in LeafRegs, lock \in BOOLEAN, failR \in FailReads :
        LET r == write_single(db, Start(failR, FALSE), reg, lock)
        IN  r.exc = NoExc =>
                \A k \in 1 .. Len(WriteCalls(r)) : WriteCalls(r)[k].value = value[reg]

(***************************************************************************)
(* C2.  For a writable NEVER register with otp_index i on which the lock   *)
(* check finds no WRITE_LOCK, write_single(name, lock) calls write_fuse    *)
(* exactly once, with (i, value, lock), and on success WRITE_LOCK is       *)
(* active iff lock.  The code hands over another value when the register   *)
(* is its own lock fuse (C1).                                              *)
(***************************************************************************)
C2_NeverWritesOnceAsAsked ==
    \A reg \in LeafRegs, lock \in BOOLEAN, failR \in FailReads, failW \in BOOLEAN :
        LET r == write_single(db, Start(failR, failW), reg, lock)
        IN  ( /\ db.individual_write_lock[reg] = NEVER
              /\ db.is_writable[reg]
              /\ db.otp_index[reg] # NoIndex
              /\ WRITE_LOCK \notin active_locks[reg]
              /\ PassesWriteLockCheck(reg, failR) )
            => /\ Len(WriteCalls(r)) = 1
               /\ WriteCalls(r)[1].index = db.otp_index[reg]
               /\ WriteCalls(r)[1].value = value[reg]
               /\ WriteCalls(r)[1].lock = lock
               /\ (r.exc = NoExc => (WRITE_LOCK \in r.s.active_locks[reg] <=> lock))

C4_ImplicitLockedAfterWrite ==
    \A reg \in LeafRegs, lock \in BOOLEAN, failR \in FailReads, failW \in BOOLEAN :
        LET r == write_single(db, Start(failR, failW), reg, lock)
        IN  (db.individual_write_lock[reg] = IMPLICIT /\ r.exc = NoExc)
            => WRITE_LOCK \in r.s.active_locks[reg]

\* an unlocked IMPLICIT register, just configured, is written with
\* lock = FALSE and is locked
C4_Witness ==
    \E reg \in LeafRegs :
        /\ fuse_context = <<reg>>
        /\ value[reg] # get_reset_value(reg)
        /\ db.individual_write_lock[reg] = IMPLICIT
        /\ WRITE_LOCK \notin active_locks[reg]
        /\ LET r == write_single(db, Start({}, FALSE), reg, FALSE)
           IN  /\ r.exc = NoExc
               /\ Len(WriteCalls(r)) = 1
               /\ WRITE_LOCK \in r.s.active_locks[reg]

(***************************************************************************)
(* C5.  For an IMPLICIT register, write_single with lock = TRUE and with   *)
(* lock = FALSE, started from the same state, end alike: the same          *)
(* exception or return, the same device commands (lock flag FALSE), the    *)
(* same final values, locks, context, session and device.                  *)
(***************************************************************************)
C5_ImplicitIgnoresLock ==
    \A reg \in LeafRegs, failR \in FailReads, failW \in BOOLEAN :
        LET r1 == write_single(db, Start(failR, failW), reg, TRUE)
            r2 == write_single(db, Start(failR, failW), reg, FALSE)
        IN  db.individual_write_lock[reg] = IMPLICIT
            => /\ r1.exc = r2.exc
               /\ r1.s = r2.s
               /\ \A k \in 1 .. Len(WriteCalls(r1)) : ~WriteCalls(r1)[k].lock

\* an IMPLICIT register, just configured, is written with lock = TRUE:
\* one write, flag FALSE
C5_Witness ==
    \E reg \in LeafRegs :
        /\ fuse_context = <<reg>>
        /\ value[reg] # get_reset_value(reg)
        /\ db.individual_write_lock[reg] = IMPLICIT
        /\ LET r == write_single(db, Start({}, FALSE), reg, TRUE)
           IN  /\ r.exc = NoExc
               /\ Len(WriteCalls(r)) = 1
               /\ ~WriteCalls(r)[1].lock
               /\ WriteCalls(r)[1].ok

(***************************************************************************)
(* C6.  As claimed: the reset-value precheck is applied to ALWAYS          *)
(* registers only; for a writable, not write-locked NEVER or IMPLICIT      *)
(* register write_single makes no device read of the target and does not   *)
(* fail because the device value differs from the reset value.             *)
(***************************************************************************)
C6_PrecheckOnlyAlways ==
    \A reg \in LeafRegs, lock \in BOOLEAN, failR \in FailReads :
        LET r == write_single(db, Start(failR, FALSE), reg, lock)
        IN  ( /\ db.individual_write_lock[reg] \in {NEVER, IMPLICIT}
              /\ db.is_writable[reg]
              /\ db.otp_index[reg] # NoIndex
              /\ PassesWriteLockCheck(reg, failR) )
            => /\ ReadCallsOf(r, db.otp_index[reg]) = <<>>
               /\ (failR = {} => r.exc = NoExc)

(***************************************************************************)
(* C6, amended.  The precheck is applied to ALWAYS and IMPLICIT registers. *)
(* For a writable NEVER register that passes the lock check, write_single  *)
(* reads the target from the device only as its own lock fuse (once, when  *)
(* it is its own lock fuse) and the write is attempted and fails only if   *)
(* the device rejects it, whatever the device value.  An IMPLICIT register *)
(* whose device value differs from the reset value is refused with         *)
(* SPSDKFuseOperationFailure and no write_fuse call.                       *)
(***************************************************************************)
C6_PrecheckNotForNever ==
    \A reg \in LeafRegs, lock \in BOOLEAN, failR \in FailReads, failW \in BOOLEAN :
        LET r == write_single(db, Start(failR, failW), reg, lock)
        IN  /\ ( /\ db.individual_write_lock[reg] = NEVER
                 /\ db.is_writable[reg]
                 /\ db.otp_index[reg] # NoIndex
                 /\ PassesWriteLockCheck(reg, failR) )
               => /\ Len(ReadCallsOf(r, db.otp_index[reg]))
                        = (IF db.lock_fuse[reg] = reg THEN 1 ELSE 0)
                  /\ Len(WriteCalls(r)) = 1
                  /\ (r.exc = NoExc <=> ~failW)
            /\ ( /\ db.individual_write_lock[reg] = IMPLICIT
                 /\ db.otp_index[reg] # NoIndex
                 /\ device[db.otp_index[reg]] # get_reset_value(reg) )
               => r.exc = SPSDKFuseOperationFailure /\ WriteCalls(r) = <<>>

\* a NEVER register whose device value is not the reset value is written
\* without any device read of it
C6_Witness ==
    \E reg \in LeafRegs :
        /\ db.individual_write_lock[reg] = NEVER
        /\ db.lock_fuse[reg] # reg
        /\ db.otp_index[reg] # NoIndex
        /\ device[db.otp_index[reg]] # get_reset_value(reg)
        /\ LET r == write_single(db, Start({}, FALSE), reg, FALSE)
           IN  /\ r.exc = NoExc
               /\ ReadCallsOf(r, db.otp_index[reg]) = <<>>
               /\ Len(WriteCalls(r)) = 1

(***************************************************************************)
(* C7.  For an ALWAYS register every write_fuse call of write_single       *)
(* carries lock = TRUE, whatever the caller passed, and after a successful *)
(* write the register's active locks include WRITE_LOCK.                   *)
(***************************************************************************)
C7_AlwaysWritesLocked ==
    \A reg \in LeafRegs, lock \in BOOLEAN, failR \in FailReads, failW \in BOOLEAN :
        LET r == write_single(db, Start(failR, failW), reg, lock)
        IN  db.individual_write_lock[reg] = ALWAYS
            => /\ \A k \in 1 .. Len(WriteCalls(r)) : WriteCalls(r)[k].lock
               /\ (r.exc = NoExc => WRITE_LOCK \in r.s.active_locks[reg])

\* an ALWAYS register, just configured, is written with lock = FALSE:
\* the backend gets TRUE
C7_Witness ==
    \E reg \in LeafRegs :
        /\ fuse_context = <<reg>>
        /\ value[reg] # get_reset_value(reg)
        /\ db.individual_write_lock[reg] = ALWAYS
        /\ LET r == write_single(db, Start({}, FALSE), reg, FALSE)
           IN  /\ r.exc = NoExc
               /\ Len(WriteCalls(r)) = 1
               /\ WriteCalls(r)[1].lock
               /\ WRITE_LOCK \in r.s.active_locks[reg]

(***************************************************************************)
(* C8.  In write_single on a register with a lock fuse, the lock fuse is   *)
(* read from the device before any device write; the register's locks are  *)
(* recomputed from the value read; and when that value shows WRITE_LOCK,   *)
(* write_single fails with SPSDKFuseOperationFailure, the register is      *)
(* write-locked in memory and write_fuse is never called.                  *)
(***************************************************************************)
C8_LockFuseReadBeforeWrite ==
    \A reg \in LeafRegs, lock \in BOOLEAN, failR \in FailReads, failW \in BOOLEAN :
        LET r == write_single(db, Start(failR, failW), reg, lock)
        IN  db.lock_fuse[reg] # NoReg
            => /\ \A k \in 1 .. Len(r.s.log) :
                    r.s.log[k].ev = "write" => LockFuseReadBefore(r, reg, k)
               /\ LockFuseReadShows(r, reg, WRITE_LOCK_MASK)
                    => /\ r.exc = SPSDKFuseOperationFailure
                       /\ WriteCalls(r) = <<>>
                       /\ WRITE_LOCK \in r.s.active_locks[reg]

\* the lock fuse in the device write-locks a register that is not locked in
\* memory: the lock fuse is read, the write is refused, nothing is written
C8_Witness ==
    \E reg \in LeafRegs :
        /\ db.lock_fuse[reg] \notin {NoReg, reg}
        /\ WRITE_LOCK \notin active_locks[reg]
        /\ LET r == write_single(db, Start({}, FALSE), reg, FALSE)
           IN  /\ LockFuseReadShows(r, reg, WRITE_LOCK_MASK)
               /\ r.exc = SPSDKFuseOperationFailure
               /\ WriteCalls(r) = <<>>
               /\ WRITE_LOCK \in r.s.active_locks[reg]

(***************************************************************************)
(* C9.  write_single never calls write_fuse for a register whose active    *)
(* locks in memory contain WRITE_LOCK at the time of the call, with or     *)
(* without a lock fuse.  The code checks WRITE_LOCK only for a register    *)
(* that has a lock fuse.                                                   *)
(***************************************************************************)
RegAt(index) == CHOOSE reg \in LeafRegs : db.otp_index[reg] = index

C9_NoWriteWhenLocked ==
    \A name \in db.regs, lock \in BOOLEAN, failR \in FailReads, failW \in BOOLEAN :
        LET r == write_single(db, Start(failR, failW), name, lock)
        IN  \A k \in 1 .. Len(WriteCalls(r)) :
                WRITE_LOCK \notin WriteCalls(r)[k].locks[RegAt(WriteCalls(r)[k].index)]

(***************************************************************************)
(* C10.  In read_single(name, check_locks = TRUE) on a register with a     *)
(* distinct lock fuse, the lock fuse is read from the device first; when   *)
(* the value read shows READ_LOCK, read_single fails with                  *)
(* SPSDKFuseOperationFailure without a device read of the target and with  *)
(* the target's cached value unchanged.                                    *)
(***************************************************************************)
C10_ReadLockedNotRead ==
    \A reg \in LeafRegs, failR \in FailReads :
        LET r == read_single(db, Start(failR, FALSE), reg, TRUE, MaxDepth)
        IN  db.lock_fuse[reg] \notin {NoReg, reg}
            => /\ DeviceCalls(r) # <<>>
                    => DeviceCalls(r)[1].index = db.otp_index[db.lock_fuse[reg]]
               /\ LockFuseReadShows(r, reg, READ_LOCK_MASK)
                    => /\ r.exc = SPSDKFuseOperationFailure
                       /\ ReadCallsOf(r, db.otp_index[reg]) = <<>>
                       /\ r.s.value[reg] = value[reg]

\* the lock fuse in the device read-locks a readable register whose cached
\* value is not the device's: only the lock fuse is read, the read fails
C10_Witness ==
    \E reg \in LeafRegs :
        /\ db.lock_fuse[reg] \notin {NoReg, reg}
        /\ db.is_readable[reg]
        /\ db.otp_index[reg] # NoIndex
        /\ value[reg] # device[db.otp_index[reg]]
        /\ READ_LOCK \notin active_locks[reg]
        /\ LET r == read_single(db, Start({}, FALSE), reg, TRUE, MaxDepth)
           IN  /\ LockFuseReadShows(r, reg, READ_LOCK_MASK)
               /\ r.exc = SPSDKFuseOperationFailure
               /\ Len(ReadCalls(r)) = 1
               /\ r.s.value[reg] = value[reg]

(***************************************************************************)
(* C11.  read_single(x, check_locks = TRUE) on a readable register x with  *)
(* an otp_index that is its own lock fuse never runs into the recursion    *)
(* limit: it makes at most two device reads (x as lock fuse, then x as     *)
(* target), fails only with SPSDKFuseOperationFailure, and when the device *)
(* accepts the reads and the value of x in the device does not assert the  *)
(* read lock, it returns that value.                                       *)
(***************************************************************************)
C11_SelfLockReadTerminates ==
    \A reg \in LeafRegs, failR \in FailReads :
        LET r == read_single(db, Start(failR, FALSE), reg, TRUE, MaxDepth)
        IN  ( /\ db.lock_fuse[reg] = reg
              /\ db.is_readable[reg]
              /\ db.otp_index[reg] # NoIndex )
            => /\ r.exc \in {NoExc, SPSDKFuseOperationFailure}
               /\ Len(ReadCalls(r)) <= 2
               /\ \A k \in 1 .. Len(ReadCalls(r)) :
                    ReadCalls(r)[k].index = db.otp_index[reg]
               /\ ( /\ db.otp_index[reg] \notin failR
                    /\ ~HasBit(device[db.otp_index[reg]], READ_LOCK_MASK) )
                  => /\ r.exc = NoExc
                     /\ r.ret = device[db.otp_index[reg]]
                     /\ r.s.value[reg] = device[db.otp_index[reg]]

\* a self-locking register that holds a configured value other than the
\* device's and is not read-locked is read: two device reads, the device
\* value is returned
C11_Witness ==
    \E reg \in LeafRegs :
        /\ db.lock_fuse[reg] = reg
        /\ fuse_context = <<reg>>
        /\ value[reg] # device[db.otp_index[reg]]
        /\ ~HasBit(device[db.otp_index[reg]], READ_LOCK_MASK)
        /\ LET r == read_single(db, Start({}, FALSE), reg, TRUE, MaxDepth)
           IN  /\ r.exc = NoExc
               /\ Len(ReadCalls(r)) = 2
               /\ r.ret = device[db.otp_index[reg]]

(***************************************************************************)
(* C12.  read_all never raises SPSDKFuseOperationFailure.  When every      *)
(* per-register read_single of the scan returns or fails with              *)
(* SPSDKFuseOperationFailure, read_all returns and the last-touched list   *)
(* is exactly the registers whose read returned, in collection order; with *)
(* exactly one failed read it has N - 1 entries.                           *)
(***************************************************************************)
RECURSIVE ReadOutcomes(_, _)
\* the exceptions (NoExc for a return) of read_single on the registers of
\* the collection from the i-th on, called one after the other from state s
ReadOutcomesAfter(r, i) == <<r.exc>> \o ReadOutcomes(r.s, i + 1)

ReadOutcomes(s, i) ==
    IF i > Len(db.order) THEN <<>>
    ELSE ReadOutcomesAfter(read_single(db, s, db.order[i], TRUE, MaxDepth), i)

\* the position of a register in the collection
OrderIndex(reg) == CHOOSE i \in 1 .. Len(db.order) : db.order[i] = reg

\* the number of entries of a sequence that equal x
Count(seq, x) == Cardinality({i \in 1 .. Len(seq) : seq[i] = x})

C12_ReadAllKeepsSucceeded ==
    \A f \in ScanFailures :
        LET r == read_all(db, StartWith(f[1], FALSE, f[2], FALSE))
            o == ReadOutcomes(StartWith(f[1], FALSE, f[2], FALSE), 1)
        IN  /\ r.exc # SPSDKFuseOperationFailure
            /\ (\A i \in 1 .. Len(o) : o[i] \in {NoExc, SPSDKFuseOperationFailure})
               => /\ r.exc = NoExc
                  /\ r.s.fuse_context
                       = SelectSeq(db.order, LAMBDA reg : o[OrderIndex(reg)] = NoExc)
                  /\ Count(o, SPSDKFuseOperationFailure) = 1
                       => Len(r.s.fuse_context) = Len(db.order) - 1

\* in a collection of three registers the device rejects one read of the
\* scan, the one made for the lock fuse itself: the other two registers,
\* the locked register and the group, make the last-touched list
C12_Witness ==
    \E failAt \in 1 .. MaxFailAt, reg \in db.regs :
        LET r == read_all(db, StartWith({}, FALSE, failAt, FALSE))
            o == ReadOutcomes(StartWith({}, FALSE, failAt, FALSE), 1)
        IN  /\ Len(db.order) = 3
            /\ \E other \in db.regs : other # reg /\ db.lock_fuse[other] = reg
            /\ o[OrderIndex(reg)] = SPSDKFuseOperationFailure
            /\ Count(o, SPSDKFuseOperationFailure) = 1
            /\ r.exc = NoExc
            /\ Len(r.s.fuse_context) = 2
            /\ \A i \in 1 .. 2 : r.s.fuse_context[i] # reg

(***************************************************************************)
(* C13.  After every read_fuse or write_fuse call of the blhost operator,  *)
(* whether it returns, fails because the device rejects the command or     *)
(* raises because the transport raised, the session is closed; this holds  *)
(* from a closed and from an open session, and the one device command of   *)
(* the call runs with the session open and is followed by the close.       *)
(***************************************************************************)
\* the log of one backend call: one device command, run with the session
\* open, then the close
OneCommandThenClose(r) ==
    /\ ~r.s.is_opened
    /\ Len(DeviceCalls(r)) = 1
    /\ DeviceCalls(r)[1].opened
    /\ Len(r.s.log) >= 2
    /\ r.s.log[Len(r.s.log)].ev = "close"
    /\ r.s.log[Len(r.s.log) - 1].ev \in {"read", "write"}

C13_SessionClosedOnEveryExit ==
    \A index \in OtpIndices, v \in LockValues, lock \in BOOLEAN, f \in CallFailures :
        /\ OneCommandThenClose(read_fuse(StartWith(f[1], f[2], 0, f[3]), index))
        /\ OneCommandThenClose(write_fuse(StartWith(f[1], f[2], 0, f[3]), index, v, lock))

\* from a session that is already open: a read in which the transport
\* raises, a write the device rejects and a write that returns all end with
\* the session closed
C13_Witness ==
    /\ is_opened
    /\ \E index \in OtpIndices :
        LET r1 == read_fuse(StartWith({}, FALSE, 0, TRUE), index)
            r2 == write_fuse(StartWith({}, TRUE, 0, FALSE), index, 1, FALSE)
            r3 == write_fuse(StartWith({}, FALSE, 0, FALSE), index, 1, TRUE)
        IN  /\ r1.exc = McuBootError /\ ~r1.s.is_opened
            /\ r2.exc = SPSDKFuseOperationFailure /\ ~r2.s.is_opened
            /\ r3.exc = NoExc /\ ~r3.s.is_opened /\ r3.s.device[index] = 1

(***************************************************************************)
(* C14.  In every read_single, read_all, write_single and write_multiple   *)
(* call, from every state a sequence of such calls leads to, the session   *)
(* events alternate: open is called only while the session is closed,      *)
(* every device command runs in the open session between the open before   *)
(* it and the close after it (the first command of an operation that       *)
(* starts with a session opened by the caller has no open of its own), and *)
(* an operation that made a backend call leaves the session closed; no     *)
(* operation leaves open a session it did not find open.                   *)
(***************************************************************************)
SessionAlternates(r) ==
    /\ \A k \in 1 .. Len(r.s.log) :
        /\ r.s.log[k].ev = "open" => ~r.s.log[k].opened
        /\ r.s.log[k].ev = "close" => r.s.log[k].opened
        /\ r.s.log[k].ev \in {"read", "write"}
             => /\ r.s.log[k].opened
                /\ k < Len(r.s.log) /\ r.s.log[k + 1].ev = "close"
                /\ IF k = 1 THEN is_opened ELSE r.s.log[k - 1].ev = "open"
    /\ DeviceCalls(r) # <<>> => ~r.s.is_opened
    /\ r.s.is_opened => is_opened

C15_ContextIsOperand ==
    \A name \in db.regs, flag \in BOOLEAN, failR \in FailReads :
        LET w == write_single(db, Start(failR, FALSE), name, flag)
            r == read_single(db, Start(failR, FALSE), name, flag, MaxDepth)
        IN  /\ w.exc = NoExc => w.s.fuse_context = <<find_reg(name)>>
            /\ r.exc = NoExc => r.s.fuse_context = <<find_reg(name)>>

(***************************************************************************)
(* C16.  create_fuse_script succeeds when every leaf register of the       *)
(* last-touched list has an otp_index, and the write commands of its       *)
(* script are then exactly one command per leaf register of the list, in   *)
(* list order: a leaf register of the list gives its own command, a group  *)
(* register gives the commands of its members in declared order, or in     *)
(* reversed order when reverse_subregs_order is set; there is no other     *)
(* command.                                                                *)
(***************************************************************************)
\* every write command a script can hold
AllCommands(tool) ==
    {get_fuse_write_cmd(tool, i, v, FALSE, FALSE) : i \in OtpIndices, v \in LockValues}

CommandLines(script, tool) == SelectSeq(script, LAMBDA line : line \in AllCommands(tool))

\* what the list stands for: each register, a group by its members
LeavesOf(reg) ==
    IF ~has_group_registers(db, reg) THEN <<reg>>
    ELSE IF db.reverse_subregs_order[reg]
    THEN [i \in 1 .. Len(db.sub_regs[reg]) |-> db.sub_regs[reg][Len(db.sub_regs[reg]) + 1 - i]]
    ELSE db.sub_regs[reg]

RECURSIVE LeavesOfList(_)
LeavesOfList(ctx) == IF ctx = <<>> THEN <<>> ELSE LeavesOf(Head(ctx)) \o LeavesOfList(Tail(ctx))

C16_ScriptFollowsContext ==
    \A tool \in Tools :
        LET r == create_fuse_script(db, Start({}, FALSE), tool)
            leaves == LeavesOfList(fuse_context)
        IN  (\A k \in 1 .. Len(leaves) : db.otp_index[leaves[k]] # NoIndex)
            => /\ r.exc = NoExc
               /\ CommandLines(r.ret, tool)
                    = [k \in 1 .. Len(leaves) |->
                         get_fuse_write_cmd(tool, db.otp_index[leaves[k]], value[leaves[k]],
                                            FALSE, FALSE)]
               /\ Len(r.ret) = Len(script_header(tool)) + 3 * Len(leaves)

\* the last-touched list is a group register with reverse_subregs_order
\* whose members hold different values: the script has the command of the
\* second member, then that of the first
C16_Witness ==
    \E reg \in db.regs :
        /\ fuse_context = <<reg>>
        /\ Len(db.sub_regs[reg]) = 2
        /\ db.reverse_subregs_order[reg]
        /\ value[db.sub_regs[reg][1]] # value[db.sub_regs[reg][2]]
        /\ LET r == create_fuse_script(db, Start({}, FALSE), BLHOST)
           IN  /\ r.exc = NoExc
               /\ CommandLines(r.ret, BLHOST)
                    = << blhost_get_fuse_write_cmd(db.otp_index[db.sub_regs[reg][2]],
                                                   value[db.sub_regs[reg][2]], FALSE, FALSE),
                         blhost_get_fuse_write_cmd(db.otp_index[db.sub_regs[reg][1]],
                                                   value[db.sub_regs[reg][1]], FALSE, FALSE) >>

(***************************************************************************)
(* C17.  Rendering a script over a list that contains a leaf register      *)
(* without otp_index raises an error of the configuration kind and returns *)
(* no text, whatever precedes that register: get_fuse_script of either     *)
(* operator and create_fuse_script raise SPSDKAttributeError,              *)
(* FuseScript.generate_script raises SPSDKError (or, when a value          *)
(* specification names a missing attribute, SPSDKValueError).              *)
(***************************************************************************)
\* the classes the code raises for what the specification calls
\* ConfigurationError
ConfigurationError ==
    {SPSDKFuseConfigurationError, SPSDKAttributeError, SPSDKValueError, SPSDKError}

\* lists of one or two registers
RegLists(regs) == {<<a>> : a \in regs} \cup {<<a, b>> : a \in regs, b \in regs}

LacksIndex(leaves) == \E k \in 1 .. Len(leaves) : db.otp_index[leaves[k]] = NoIndex

\* the registers the items of fuses_db name
PublicItems(fs) == SelectSeq(fs.fuses_db, LAMBDA item : ~startswith(item.key, "_"))

ItemKeys(fs) == [i \in 1 .. Len(PublicItems(fs)) |-> PublicItems(fs)[i].key]

\* a string that names, with the marker, an attribute the object lacks
Unresolved(spec, attrs) ==
    /\ spec.kind = "str"
    /\ Len(spec.str) > 2
    /\ SubSeq(spec.str, 1, 2) = "__"
    /\ SubSeq(spec.str, 3, Len(spec.str)) \notin DOMAIN attrs

\* some value specification of fuses_db, at register or at bitfield level,
\* names an attribute the object lacks
HasUnresolved(fs, attrs) ==
    \E i \in 1 .. Len(PublicItems(fs)) :
        \/ Unresolved(PublicItems(fs)[i].value, attrs)
        \/ \E j \in 1 .. Len(PublicItems(fs)[i].value.fields) :
              Unresolved(PublicItems(fs)[i].value.fields[j].value, attrs)

\* a string without the marker: get_object_value rejects it as well
HasUnmarked(fs) ==
    \E i \in 1 .. Len(PublicItems(fs)) :
        /\ PublicItems(fs)[i].value.kind = "str"
        /\ ~startswith(PublicItems(fs)[i].value.str, "__")

C18_LoadConfigTouchesNoDevice ==
    \A names \in ConfigOrders(db), cfg \in ConfigValues(db), f \in CallFailures :
        LET r == load_config(StartWith(f[1], f[2], 0, f[3]), names, cfg)
        IN  /\ r.exc = NoExc
            /\ r.s.log = <<>>
            /\ r.s.device = device
            /\ r.s.is_opened = is_opened
            /\ r.s.active_locks = active_locks
            /\ r.s.fuse_context = names
            /\ \A k \in 1 .. Len(names) : r.s.value[names[k]] = cfg[names[k]]

\* after a read left another list: a configuration that names two
\* registers in the reverse of their order in the collection is loaded
\* while the device would reject every command
C18_Witness ==
    /\ fuse_context # <<>>
    /\ \E names \in ConfigOrders(db), cfg \in ConfigValues(db) :
        LET r == load_config(StartWith({3}, TRUE, 0, FALSE), names, cfg)
        IN  /\ Len(names) = 2
            /\ OrderIndex(names[1]) > OrderIndex(names[2])
            /\ fuse_context # names
            /\ r.exc = NoExc
            /\ r.s.fuse_context = names
            /\ r.s.value # value

C20_MissingAttributeRaises ==
    \A attrs \in AttrObjects, info_only \in BOOLEAN :
        LET r == generate_script(fuse_script, db, Start({}, FALSE), attrs, info_only)
        IN  HasUnresolved(fuse_script, attrs)
            => /\ r.exc \in ConfigurationError
               /\ ~LacksIndex(LeavesOfList(ItemKeys(fuse_script))) => r.exc = SPSDKValueError

\* a table whose bitfield-level specification names attribute a, after a
\* run that set the register: without a both modes raise, with a the
\* script is returned
C20_Witness ==
    /\ \E i \in 1 .. Len(fuse_script.fuses_db) :
          /\ fuse_script.fuses_db[i].value.kind = "dict"
          /\ \E j \in 1 .. Len(fuse_script.fuses_db[i].value.fields) :
                fuse_script.fuses_db[i].value.fields[j].value.kind = "str"
          /\ value[fuse_script.fuses_db[i].key]
               # get_reset_value(fuse_script.fuses_db[i].key)
    /\ \E attrs \in AttrObjects :
          /\ HasUnresolved(fuse_script, attrs)
          /\ generate_script(fuse_script, db, Start({}, FALSE), attrs, FALSE).exc
               = SPSDKValueError
          /\ generate_script(fuse_script, db, Start({}, FALSE), attrs, TRUE).exc
               = SPSDKValueError
    /\ \E attrs \in AttrObjects :
          /\ ~HasUnresolved(fuse_script, attrs)
          /\ generate_script(fuse_script, db, Start({}, FALSE), attrs, FALSE).exc = NoExc

(***************************************************************************)
(* C21.  When generate_script returns and a value specification is a       *)
(* marked string whose attribute the object has, the register (or the      *)
(* named bitfield) has the attribute's value afterwards and the returned   *)
(* text renders that value, for every attribute value, 0 included.         *)
(***************************************************************************)
\* the attribute a marked string names
AttrName(spec) == SubSeq(spec.str, 3, Len(spec.str))

\* a marked string whose attribute the object has
Resolved(spec, attrs) ==
    spec.kind = "str" /\ startswith(spec.str, "__") /\ hasattr(attrs, AttrName(spec))

InText(lines, line) == \E k \in 1 .. Len(lines) : lines[k] = line

\* the line of the returned text that carries the value v of a leaf register
RenderedLine(fs, d, reg, v, info_only) ==
    IF info_only
    THEN "OTP ID: " \o ToString(d.otp_index[reg]) \o ", Value: " \o LowerHex(v)
    ELSE get_fuse_write_cmd(fs.operator, d.otp_index[reg], v, FALSE, ~fs.no_verify)

C21_AttributeValueInOutput ==
    \A attrs \in AttrObjects, info_only \in BOOLEAN :
        LET r == generate_script(fuse_script, db, Start({}, FALSE), attrs, info_only)
        IN  r.exc = NoExc
            => \A i \in 1 .. Len(PublicItems(fuse_script)) :
                LET item == PublicItems(fuse_script)[i]
                IN  /\ Resolved(item.value, attrs)
                        => /\ r.s.value[item.key] = attrs[AttrName(item.value)]
                           /\ InText(r.ret, RenderedLine(fuse_script, db, item.key,
                                                         attrs[AttrName(item.value)],
                                                         info_only))
                    /\ \A j \in 1 .. Len(item.value.fields) :
                        Resolved(item.value.fields[j].value, attrs)
                        => HasBit(r.s.value[item.key],
                                  bitfield_mask(item.value.fields[j].key))
                             = (attrs[AttrName(item.value.fields[j].value)] = 1)

(***************************************************************************)
(* C22.  generate_script returns, for every attributes object and mode,    *)
(* the text it returns on a FuseScript that never ran before (registers at *)
(* their reset values), whatever earlier generate_script calls were given. *)
(***************************************************************************)
\* the object state of a FuseScript on which generate_script never ran
FreshScript == [Start({}, FALSE) EXCEPT !.value = [r \in Regs |-> get_reset_value(r)]]

C22_TextIndependentOfHistory ==
    \A attrs \in AttrObjects, info_only \in BOOLEAN :
        LET r == generate_script(fuse_script, db, Start({}, FALSE), attrs, info_only)
            f == generate_script(fuse_script, db, FreshScript, attrs, info_only)
        IN  /\ r.exc = f.exc
            /\ r.exc = NoExc => r.ret = f.ret

(***************************************************************************)
(* C23.  For every index, value, lock and verify, the text of              *)
(* get_fuse_write_cmd splits at single spaces into exactly these tokens:   *)
(* blhost: efuse-program-once, the index, 0x and the value in hexadecimal, *)
(* --verify or --no-verify as verify says, and lock only when lock;        *)
(* nxpele: write-fuse, --index, the index, --data, 0x and the value in     *)
(* hexadecimal, and --lock only when lock, whatever verify is.  The        *)
(* hexadecimal digits are upper case without leading zeros.                *)
(***************************************************************************)
\* the position of the first space of a string, Len + 1 when it has none
RECURSIVE FirstSpace(_, _)
FirstSpace(str, k) ==
    IF k > Len(str) \/ SubSeq(str, k, k) = " " THEN k ELSE FirstSpace(str, k + 1)

\* str.split(" ")
RECURSIVE Tokens(_)
Tokens(str) ==
    IF FirstSpace(str, 1) > Len(str) THEN <<str>>
    ELSE <<SubSeq(str, 1, FirstSpace(str, 1) - 1)>>
         \o Tokens(SubSeq(str, FirstSpace(str, 1) + 1, Len(str)))

UpperHexDigits == "0123456789ABCDEF"

\* the value of an upper-case hexadecimal digit, -1 for any other character
DigitValue(c) ==
    IF \E n \in 0 .. 15 : SubSeq(UpperHexDigits, n + 1, n + 1) = c
    THEN CHOOSE n \in 0 .. 15 : SubSeq(UpperHexDigits, n + 1, n + 1) = c
    ELSE -1

\* int(str, 16) of a string of upper-case digits, read from the k-th digit
\* on with acc the value of the digits before; -1 when a character is not one
RECURSIVE ParseHex(_, _, _)
ParseHex(str, k, acc) ==
    IF k > Len(str) THEN acc
    ELSE IF DigitValue(SubSeq(str, k, k)) < 0 THEN -1
    ELSE ParseHex(str, k + 1, acc * 16 + DigitValue(SubSeq(str, k, k)))

\* token is 0x followed by the upper-case digits of v, no leading zeros
IsHexOf(token, v) ==
    /\ Len(token) > 2
    /\ SubSeq(token, 1, 2) = "0x"
    /\ ParseHex(SubSeq(token, 3, Len(token)), 1, 0) = v
    /\ (Len(token) > 3 => SubSeq(token, 3, 3) # "0")

\* the indices and the values the commands are rendered for
CmdIndices == OtpIndices \cup {0, 17, 255}
CmdValues == (0 .. 17) \cup {255, 256, 4095, 43981, 2147483647}

BlhostTokens(t, index, v, lock, verify) ==
    /\ Len(t) = (IF lock THEN 5 ELSE 4)
    /\ t[1] = "efuse-program-once"
    /\ t[2] = ToString(index)
    /\ IsHexOf(t[3], v)
    /\ t[4] = (IF verify THEN "--verify" ELSE "--no-verify")
    /\ lock => t[5] = "lock"

NxpeleTokens(t, index, v, lock) ==
    /\ Len(t) = (IF lock THEN 6 ELSE 5)
    /\ t[1] = "write-fuse"
    /\ t[2] = "--index"
    /\ t[3] = ToString(index)
    /\ t[4] = "--data"
    /\ IsHexOf(t[5], v)
    /\ lock => t[6] = "--lock"

C23_WriteCommandTokens ==
    \A index \in CmdIndices, v \in CmdValues \cup {value[r] : r \in Regs},
       lock \in BOOLEAN, verify \in BOOLEAN :
        /\ BlhostTokens(Tokens(get_fuse_write_cmd(BLHOST, index, v, lock, verify)),
                        index, v, lock, verify)
        /\ NxpeleTokens(Tokens(get_fuse_write_cmd(NXPELE, index, v, lock, verify)),
                        index, v, lock)
        /\ get_fuse_write_cmd(NXPELE, index, v, lock, TRUE)
             = get_fuse_write_cmd(NXPELE, index, v, lock, FALSE)

\* a FuseScript for each tool has rendered a register it set to 2, and the
\* commands of a locking write of 0xABCD are the documented texts
C23_Witness ==
    /\ value["T"] = 2
    /\ \E attrs \in AttrObjects :
         LET r == generate_script(fuse_script, db, Start({}, FALSE), attrs, FALSE)
         IN  /\ r.exc = NoExc
             /\ InText(r.ret, IF fuse_script.operator = BLHOST
                              THEN IF fuse_script.no_verify
                                   THEN "efuse-program-once 3 0x2 --no-verify"
                                   ELSE "efuse-program-once 3 0x2 --verify"
                              ELSE "write-fuse --index 3 --data 0x2")
    /\ get_fuse_write_cmd(BLHOST, 17, 43981, TRUE, TRUE)
         = "efuse-program-once 17 0xABCD --verify lock"
    /\ get_fuse_write_cmd(BLHOST, 17, 43981, FALSE, FALSE)
         = "efuse-program-once 17 0xABCD --no-verify"
    /\ get_fuse_write_cmd(NXPELE, 17, 43981, TRUE, TRUE)
         = "write-fuse --index 17 --data 0xABCD --lock"
    /\ get_fuse_write_cmd(NXPELE, 17, 43981, FALSE, TRUE)
         = "write-fuse --index 17 --data 0xABCD"

(***************************************************************************)
(* C24.  The write commands of the script generate_script returns are, for *)
(* each register entry in turn, one command per member when the register   *)
(* has sub-registers (none for the group itself) and one command           *)
(* otherwise; the members come in declared order when                      *)
(* reverse_subregs_order is false and in reversed order when it is true.   *)
(***************************************************************************)
IsCommand(line) ==
    startswith(line, "efuse-program-once ") \/ startswith(line, "write-fuse ")

\* the write commands of a script, in the order of its lines
ScriptCommands(script) == SelectSeq(script, IsCommand)

\* the commands of the registers of a list, with the values of s
CommandsOf(fs, s, regs) == [k \in 1 .. Len(regs) |-> command_line(fs, db, s, regs[k])]

C24_GroupMembersFollowFlag ==
    \A attrs \in AttrObjects :
        LET r == generate_script(fuse_script, db, Start({}, FALSE), attrs, FALSE)
        IN  r.exc = NoExc
            => ScriptCommands(r.ret)
                 = CommandsOf(fuse_script, r.s, LeavesOfList(ItemKeys(fuse_script)))

(***************************************************************************)
(* C25.  The lookup of a name fails exactly when no register of the        *)
(* collection has that name, and succeeds in the collection with that      *)
(* register added.  read_single and write_single given a name of no        *)
(* register raise the lookup's error, make no session or device call, and  *)
(* leave the register values, the locks, the device and the last-touched   *)
(* list as they were.                                                      *)
(***************************************************************************)
\* the call left the object and the device as they were and called nothing
NothingDone(r) ==
    /\ r.s.log = <<>>
    /\ r.s.value = value
    /\ r.s.active_locks = active_locks
    /\ r.s.fuse_context = fuse_context
    /\ r.s.device = device
    /\ r.s.is_opened = is_opened

C25_UnknownNameNotFound ==
    \A name \in Names :
        /\ is_known(db, name) <=> name \in db.regs
        /\ is_known([db EXCEPT !.regs = @ \cup {name}], name)
        /\ \A f \in CallFailures, flag \in BOOLEAN :
            LET rd == read_single(db, StartWith(f[1], f[2], 0, f[3]), name, flag, MaxDepth)
                wr == write_single(db, StartWith(f[1], f[2], 0, f[3]), name, flag)
            IN  /\ (rd.exc = SPSDKRegsErrorRegisterNotFound) <=> (name \notin db.regs)
                /\ (wr.exc = SPSDKRegsErrorRegisterNotFound) <=> (name \notin db.regs)
                /\ name \notin db.regs => NothingDone(rd) /\ NothingDone(wr)

\* after operations that set a value and the last-touched list, in a
\* collection without L: read_single and write_single of L and of NOPE raise
\* the lookup's error and change nothing
C25_Witness ==
    /\ "L" \notin db.regs
    /\ fuse_context = <<"T">>
    /\ value["T"] # get_reset_value("T")
    /\ \A name \in {"L", "NOPE"} :
        /\ read_single(db, Start({}, FALSE), name, TRUE, MaxDepth).exc
             = SPSDKRegsErrorRegisterNotFound
        /\ write_single(db, Start({}, FALSE), name, TRUE).exc
             = SPSDKRegsErrorRegisterNotFound
        /\ NothingDone(write_single(db, Start({}, FALSE), name, TRUE))

GroupRegs == {reg \in db.regs : has_group_registers(db, reg)}

\* whether g is read as its members m1, then m2 read from m1's final state
ReadAsMembers(g, r, m1, m2) ==
    /\ m1.exc # NoExc => r.exc = m1.exc /\ r.s = m1.s
    /\ (m1.exc = NoExc /\ m2.exc # NoExc) => r.exc = m2.exc /\ r.s = m2.s
    /\ (m1.exc = NoExc /\ m2.exc = NoExc)
         => /\ r.exc = NoExc
            /\ r.s = [m2.s EXCEPT !.fuse_context = <<g>>]
            /\ r.s.fuse_context = <<g>>
            /\ m2.s.fuse_context = <<db.sub_regs[g][2]>>
            /\ \A k \in 1 .. 2 :
                 /\ r.s.value[db.sub_regs[g][k]] = device[db.otp_index[db.sub_regs[g][k]]]
                 /\ r.ret[k] = device[db.otp_index[ordered_sub_regs(db, g)[k]]]
            /\ Len(r.ret) = 2
    /\ \A k \in 1 .. Len(r.s.log) :
         r.s.log[k].ev = "read"
         => r.s.log[k].index \in {db.otp_index[db.sub_regs[g][j]] : j \in 1 .. 2}

C27_GroupReadIsMemberReads ==
    \A g \in GroupRegs, check_locks \in BOOLEAN, f \in ScanFailures :
        LET m1 == read_single(db, StartWith(f[1], FALSE, f[2], FALSE), db.sub_regs[g][1],
                              TRUE, MaxDepth - 1)
        IN  ReadAsMembers(g,
                read_single(db, StartWith(f[1], FALSE, f[2], FALSE), g, check_locks,
                            MaxDepth),
                m1,
                read_single(db, m1.s, db.sub_regs[g][2], TRUE, MaxDepth - 1))

\* the cached values of both members differ from the device's and another
\* register was touched last: reading the group returns the device values
\* and leaves the group as the last-touched list
C27_Witness ==
    \E g \in GroupRegs :
        LET r == read_single(db, Start({}, FALSE), g, TRUE, MaxDepth)
        IN  /\ fuse_context # <<>> /\ fuse_context # <<g>>
            /\ \A k \in 1 .. 2 : value[db.sub_regs[g][k]] # device[db.otp_index[db.sub_regs[g][k]]]
            /\ device[db.otp_index[db.sub_regs[g][1]]] # device[db.otp_index[db.sub_regs[g][2]]]
            /\ r.exc = NoExc
            /\ r.ret = <<device[db.otp_index[db.sub_regs[g][1]]],
                         device[db.otp_index[db.sub_regs[g][2]]]>>
            /\ r.s.fuse_context = <<g>>
            /\ Len(ReadCalls(r)) >= 2

(***************************************************************************)
(* C28.  When the device rejects the write, write_single on a leaf         *)
(* register that reaches the backend write raises                          *)
(* SPSDKFuseOperationFailure after that one write call, the device is      *)
(* unchanged and WRITE_LOCK is not added to the register's active locks,   *)
(* for every policy and lock argument.  In general write_single adds       *)
(* WRITE_LOCK to the register only after a backend write that succeeded,   *)
(* or because a read of its lock fuse showed the lock.                     *)
(***************************************************************************)
C28_FailedWriteLocksNothing ==
    \A reg \in LeafRegs, lock \in BOOLEAN, failR \in FailReads :
        /\ LET r == write_single(db, Start(failR, TRUE), reg, lock)
           IN  WriteCalls(r) # <<>>
               => /\ r.exc = SPSDKFuseOperationFailure
                  /\ Len(WriteCalls(r)) = 1
                  /\ ~WriteCalls(r)[1].ok
                  /\ r.s.device = device
                  /\ WRITE_LOCK \in r.s.active_locks[reg] => WRITE_LOCK \in active_locks[reg]
        /\ \A failW \in BOOLEAN :
            LET r == write_single(db, Start(failR, failW), reg, lock)
            IN  ( /\ WRITE_LOCK \in r.s.active_locks[reg]
                  /\ WRITE_LOCK \notin active_locks[reg]
                  /\ db.lock_fuse[reg] # NoReg
                       => ~LockFuseReadShows(r, reg, WRITE_LOCK_MASK) )
                => \E k \in 1 .. Len(WriteCalls(r)) : WriteCalls(r)[k].ok

\* a configured register that passes every check: the device rejects the
\* write, and the register is not write-locked afterwards, under the
\* IMPLICIT and under the ALWAYS policy, while the accepted write locks it
C28_Witness ==
    /\ value["T"] # get_reset_value("T")
    /\ WRITE_LOCK \notin active_locks["T"]
    /\ \A pol \in {IMPLICIT, ALWAYS} :
        \E d \in BaseDb :
            /\ d.regs = db.regs
            /\ d.individual_write_lock["T"] = pol
            /\ d.lock_fuse["T"] = "L"
            /\ LET r == write_single(d, Start({}, TRUE), "T", FALSE)
               IN  /\ r.exc = SPSDKFuseOperationFailure
                   /\ Len(WriteCalls(r)) = 1
                   /\ WRITE_LOCK \notin r.s.active_locks["T"]
            /\ LET r == write_single(d, Start({}, FALSE), "T", FALSE)
               IN  r.exc = NoExc /\ WRITE_LOCK \in r.s.active_locks["T"]

(***************************************************************************)
(* C29.  write_multiple(names) ends as write_single(names[1], FALSE)       *)
(* followed, when that returned, by write_single(names[2], FALSE) run from *)
(* the state the first left: the same exception or return, the same        *)
(* session and device commands in the same order, the same device,         *)
(* values, locks and last-touched list.  After the first name that fails   *)
(* nothing more is attempted.                                              *)
(***************************************************************************)
\* r ends as w1 when w1 raised and as w2, run from w1's final state, otherwise
EndsAsSequence(r, w1, w2) ==
    /\ w1.exc # NoExc => r.exc = w1.exc /\ r.s = w1.s
    /\ w1.exc = NoExc => r.exc = w2.exc /\ r.s = w2.s

C29_WriteMultipleIsSequence ==
    \A names \in NameLists, failR \in FailReads, failW \in BOOLEAN :
        LET w1 == write_single(db, Start(failR, failW), names[1], FALSE)
        IN  EndsAsSequence(write_multiple(db, Start(failR, failW), names), w1,
                           write_single(db, w1.s, names[2], FALSE))

\* T holds a configured value and can be written: write_multiple of T and
\* an unknown name writes T and then raises the lookup's error; with the
\* unknown name first nothing is written
C29_Witness ==
    /\ value["T"] # get_reset_value("T")
    /\ value["T"] # device[db.otp_index["T"]]
    /\ LET r == write_multiple(db, Start({}, FALSE), <<"T", "NOPE">>)
       IN  /\ r.exc = SPSDKRegsErrorRegisterNotFound
           /\ Len(WriteCalls(r)) = 1
           /\ WriteCalls(r)[1].ok
           /\ r.s.device[db.otp_index["T"]] = value["T"]
    /\ LET r == write_multiple(db, Start({}, FALSE), <<"NOPE", "T">>)
       IN  /\ r.exc = SPSDKRegsErrorRegisterNotFound
           /\ NothingDone(r)
    /\ "L" \in db.regs
    /\ LET r == write_multiple(db, Start({}, FALSE), <<"T", "L">>)
       IN  /\ r.exc = NoExc
           /\ Len(WriteCalls(r)) = 2
           /\ WriteCalls(r)[1].index = db.otp_index["T"]
           /\ WriteCalls(r)[2].index = db.otp_index["L"]

(***************************************************************************)
(* C30.  write_single(group, lock) ends as write_single(member 1, lock)    *)
(* followed, when that returned, by write_single(member 2, lock) run from  *)
(* the state the first left, members in declared order: each member goes   *)
(* through the whole leaf algorithm with the caller's lock argument.  When *)
(* the second member fails the first stays written in the device (and      *)
(* write-locked where a lock applied) and the error propagates; when the   *)
(* first fails nothing is written for the second.                          *)
(***************************************************************************)
\* the write calls of the outcome r that address register reg
WriteCallsOf(r, reg) ==
    SelectSeq(r.s.log, LAMBDA e : e.ev = "write" /\ e.index = db.otp_index[reg])

\* what is left of a group write whose first member m1 was written (outcome
\* w1) when it ends as r
FirstMemberKept(r, w1, m1, m2, lock) ==
    /\ w1.exc # NoExc => WriteCallsOf(r, m2) = <<>>
    /\ (w1.exc = NoExc /\ r.exc # NoExc)
         => /\ Len(WriteCallsOf(r, m1)) = 1
            /\ WriteCallsOf(r, m1)[1].ok
            /\ WriteCallsOf(r, m1)[1].lock
                 = effective_lock(db.individual_write_lock[m1], lock)
            /\ r.s.device[db.otp_index[m1]] = WriteCallsOf(r, m1)[1].value
            /\ \A k \in 1 .. Len(WriteCallsOf(r, m2)) : ~WriteCallsOf(r, m2)[k].ok
            /\ r.s.device[db.otp_index[m2]] = device[db.otp_index[m2]]
            /\ WRITE_LOCK \in w1.s.active_locks[m1]
                 <=> locks_after_write(db.individual_write_lock[m1],
                                       effective_lock(db.individual_write_lock[m1], lock))

C30_GroupWriteIsMemberWrites ==
    \A g \in GroupRegs, lock \in BOOLEAN, f \in CallFailures :
        LET w1 == write_single(db, StartWith(f[1], f[2], 0, f[3]), db.sub_regs[g][1], lock)
            r == write_single(db, StartWith(f[1], f[2], 0, f[3]), g, lock)
        IN  /\ EndsAsSequence(r, w1, write_single(db, w1.s, db.sub_regs[g][2], lock))
            /\ FirstMemberKept(r, w1, db.sub_regs[g][1], db.sub_regs[g][2], lock)

\* both members hold configured values and the second is not writable:
\* the group write with lock writes and locks the first member, then fails
\* on the second without a write
C30_Witness ==
    \E g \in GroupRegs :
        LET r == write_single(db, Start({}, FALSE), g, TRUE)
        IN  /\ ~db.is_writable[db.sub_regs[g][2]]
            /\ value[db.sub_regs[g][1]] # device[db.otp_index[db.sub_regs[g][1]]]
            /\ value[db.sub_regs[g][1]] # get_reset_value(db.sub_regs[g][1])
            /\ r.exc = SPSDKFuseOperationFailure
            /\ Len(WriteCalls(r)) = 1
            /\ WriteCalls(r)[1].index = db.otp_index[db.sub_regs[g][1]]
            /\ WriteCalls(r)[1].lock
            /\ r.s.device[db.otp_index[db.sub_regs[g][1]]] = value[db.sub_regs[g][1]]
            /\ WRITE_LOCK \in r.s.active_locks[db.sub_regs[g][1]]
            /\ WRITE_LOCK \notin r.s.active_locks[db.sub_regs[g][2]]

(***************************************************************************)
(* C31.  For a writable ALWAYS register with otp_index whose lock fuse,    *)
(* read from the device, leaves READ_LOCK but not WRITE_LOCK active,       *)
(* write_single raises SPSDKFuseOperationFailure and write_fuse is never   *)
(* called: the policy re-read of the register is refused.  With a distinct *)
(* lock fuse the register itself is never read from the device.            *)
(***************************************************************************)
\* the outcome r0 of the lock-fuse read of write_single leaves reg
\* read-locked and not write-locked
ReadLockedOnly(r0, reg) ==
    /\ r0.exc = NoExc
    /\ READ_LOCK \in r0.s.active_locks[reg]
    /\ WRITE_LOCK \notin r0.s.active_locks[reg]

C31_ReadLockedAlwaysNotWritten ==
    \A reg \in LeafRegs, lock \in BOOLEAN, failR \in FailReads, failW \in BOOLEAN :
        ( /\ db.individual_write_lock[reg] = ALWAYS
          /\ db.is_writable[reg]
          /\ db.otp_index[reg] # NoIndex
          /\ db.lock_fuse[reg] # NoReg
          /\ ReadLockedOnly(read_single(db, Start(failR, failW), db.lock_fuse[reg],
                                        db.lock_fuse[reg] # reg, MaxDepth), reg) )
        => LET r == write_single(db, Start(failR, failW), reg, lock)
           IN  /\ r.exc = SPSDKFuseOperationFailure
               /\ WriteCalls(r) = <<>>
               /\ r.s.device = device
               /\ db.lock_fuse[reg] # reg => ReadCallsOf(r, db.otp_index[reg]) = <<>>

\* an ALWAYS register holding a configured value, with the reset value in
\* the device, whose lock fuse in the device read-locks it only: the write
\* fails after two reads of the lock fuse and nothing is written
C31_Witness ==
    \E reg \in LeafRegs :
        /\ db.individual_write_lock[reg] = ALWAYS
        /\ db.is_writable[reg] /\ db.is_readable[reg]
        /\ db.otp_index[reg] # NoIndex
        /\ db.lock_fuse[reg] \notin {NoReg, reg}
        /\ value[reg] # get_reset_value(reg)
        /\ device[db.otp_index[reg]] = get_reset_value(reg)
        /\ LocksOf(device[db.otp_index[db.lock_fuse[reg]]]) = {READ_LOCK}
        /\ LET r == write_single(db, Start({}, FALSE), reg, FALSE)
           IN  /\ r.exc = SPSDKFuseOperationFailure
               /\ WriteCalls(r) = <<>>
               /\ Len(ReadCallsOf(r, db.otp_index[db.lock_fuse[reg]])) = 2
               /\ ReadCallsOf(r, db.otp_index[reg]) = <<>>

(***************************************************************************)
(* C32.  read_single(name, check_locks = FALSE) reads from the device only *)
(* the register itself, or the members of a group register once each in    *)
(* declared order, never a lock fuse first; and when it raises             *)
(* SPSDKFuseOperationFailure a register is not readable or the device      *)
(* rejected the last read: an active READ_LOCK never makes it fail.        *)
(***************************************************************************)
\* the registers read_single reads from the device for reg
ReadTargets(reg) == IF has_group_registers(db, reg) THEN db.sub_regs[reg] ELSE <<reg>>

\* the outcome r made only the device reads of the registers of targets, in
\* that order, and did not fail on a lock
ReadsOnlyTargets(r, targets) ==
    /\ Len(ReadCalls(r)) <= Len(targets)
    /\ \A k \in 1 .. Len(ReadCalls(r)) : ReadCalls(r)[k].index = db.otp_index[targets[k]]
    /\ r.exc = SPSDKFuseOperationFailure
         => \/ \E k \in 1 .. Len(targets) : ~db.is_readable[targets[k]]
            \/ ReadCalls(r) # <<>> /\ ~ReadCalls(r)[Len(ReadCalls(r))].ok

C32_UncheckedReadSkipsLocks ==
    \A reg \in db.regs, f \in ScanFailures :
        ReadsOnlyTargets(read_single(db, StartWith(f[1], FALSE, f[2], FALSE), reg, FALSE,
                                     MaxDepth),
                         ReadTargets(reg))

(***************************************************************************)
(* C33.  After a write_single that returned and left WRITE_LOCK active on  *)
(* the register, every read_single, read_all and write_single called next  *)
(* leaves WRITE_LOCK active on that register.                              *)
(***************************************************************************)
\* the state the next operation starts from after the outcome w
After(w) == [w.s EXCEPT !.log = <<>>]

\* reg is write-locked in the state the outcome r leaves
KeepsWriteLock(r, reg) == WRITE_LOCK \in r.s.active_locks[reg]

C33_WriteLockMonotonic ==
    \A reg \in LeafRegs, lock \in BOOLEAN :
        LET w == write_single(db, Start({}, FALSE), reg, lock)
        IN  (w.exc = NoExc /\ WRITE_LOCK \in w.s.active_locks[reg])
            => /\ \A name \in db.regs, flag \in BOOLEAN :
                    /\ KeepsWriteLock(read_single(db, After(w), name, flag, MaxDepth), reg)
                    /\ KeepsWriteLock(write_single(db, After(w), name, flag), reg)
               /\ KeepsWriteLock(read_all(db, After(w)), reg)

(***************************************************************************)
(* C34.  read_single and write_single never run into the recursion limit,  *)
(* whatever the lock-fuse relation of the collection: a register that is   *)
(* its own lock fuse, a lock fuse that has a lock fuse, and two registers  *)
(* that are each other's lock fuse.                                        *)
(***************************************************************************)
\* T and L are each other's lock fuse
MutualDb == { LockedDb(NEVER, "T", 3, TRUE, TRUE) }

\* the collections the lock-fuse relations are taken from: the object's own
\* and the one with mutual lock fuses
LockRelationDbs == {db} \cup MutualDb

C34_NestedReadsBounded ==
    \A d \in LockRelationDbs :
        \A name \in d.regs, flag \in BOOLEAN :
            /\ read_single(d, Start({}, FALSE), name, flag, MaxDepth).exc # RecursionError
            /\ write_single(d, Start({}, FALSE), name, flag).exc # RecursionError

(***************************************************************************)
(* C35.  A write_single that fails before the backend write (write-locked  *)
(* by the lock fuse, policy check failed, not writable, no otp_index)      *)
(* leaves the value to be written of the target register, its active locks *)
(* and the last-touched list as they were before the call.                 *)
(***************************************************************************)
FailedBeforeWrite(r) ==
    /\ r.exc \in {SPSDKFuseOperationFailure, SPSDKError}
    /\ WriteCalls(r) = <<>>

TargetStateKept(r, reg) ==
    /\ r.s.value[reg] = value[reg]
    /\ r.s.active_locks[reg] = active_locks[reg]
    /\ r.s.fuse_context = fuse_context

C35_FailedWriteLeavesState ==
    \A reg \in LeafRegs, lock \in BOOLEAN :
        LET r == write_single(db, Start({}, FALSE), reg, lock)
        IN  FailedBeforeWrite(r) => TargetStateKept(r, reg)

=============================================================================
